---------------------------- MODULE Spec2Model ----------------------------
(***************************************************************************)
(* The language detection engine of helpers/websearch-language-detection.js*)
(* and the LanguageCache of scripts/enrich-tv-with-language.js.            *)
(*                                                                         *)
(* JavaScript strings are sequences of UTF-16 code units (naturals), so    *)
(* that toLowerCase, trim, split, \b, \s and the Unicode script ranges are *)
(* computed on characters as the source computes them.  null is the value  *)
(* Null, undefined is Undefined and a value that is no string (a number,   *)
(* an object) is NotAString; none of them is a sequence of code units.     *)
(* Provenance tags (source, method) and franc's ISO 639-3 answers are only *)
(* compared and looked up, and are TLA+ strings.                           *)
(***************************************************************************)
EXTENDS Integers, Sequences, FiniteSets, TLC

\* ------------------------------------------------------------------------
\* JavaScript values and strings
\* ------------------------------------------------------------------------

Null == <<-1>>
Undefined == <<-2>>
NotAString == <<-3>>

\* typeof v === 'string'
IsString(v) == Len(v) = 0 \/ v[1] >= 0

\* JavaScript truthiness of a string-or-null value: null, undefined and ''
\* are falsy, every other string is truthy.
Truthy(v) == IsString(v) /\ Len(v) > 0

\* The white space of \s and of String.prototype.trim (WhiteSpace and
\* LineTerminator of ECMAScript).
IsWhiteSpace(c) ==
  \/ c \in {9, 10, 11, 12, 13, 32, 160, 5760, 8232, 8233, 8239, 8287, 12288, 65279}
  \/ (c >= 8192 /\ c <= 8202)

IsUpper(c) == c >= 65 /\ c <= 90
IsLower(c) == c >= 97 /\ c <= 122
IsLetter(c) == IsUpper(c) \/ IsLower(c)
IsDigit(c) == c >= 48 /\ c <= 57
\* \w
IsWordChar(c) == IsLetter(c) \/ IsDigit(c) \/ c = 95

\* String.prototype.toLowerCase: the locale-independent lower case of the
\* Unicode character database (version 17.0), taken character by character.
\* A string is a sequence of UTF-16 code units; a high surrogate followed by
\* a low surrogate is one character, a surrogate alone is a character with no
\* lower case.  Two mappings are not one code unit for one: U+0130 becomes
\* i followed by U+0307, and a capital sigma becomes the final sigma when a
\* cased letter precedes it and none follows it, case-ignorable characters
\* in between left out of account.
\* (The string, the rows of a character and the places around a sigma are
\* bound by a one-element set so that each is evaluated once; a sequence
\* built as a function is concatenated with <<>> so that it is a tuple.)
toLowerCase(s) ==
  LET \* the capital letters: first and last character of a range, the distance
      \* to the lower case, and which of the range are capitals (2: every one,
      \* 0: the even ones, 1: the odd ones)
      capitals ==
        { <<65, 90, 32, 2>>, <<192, 214, 32, 2>>, <<216, 222, 32, 2>>,
          <<256, 302, 1, 0>>, <<306, 310, 1, 0>>, <<313, 327, 1, 1>>,
          <<330, 374, 1, 0>>, <<376, 376, -121, 2>>, <<377, 381, 1, 1>>,
          <<385, 385, 210, 2>>, <<386, 388, 1, 0>>, <<390, 390, 206, 2>>,
          <<391, 391, 1, 2>>, <<393, 394, 205, 2>>, <<395, 395, 1, 2>>,
          <<398, 398, 79, 2>>, <<399, 399, 202, 2>>, <<400, 400, 203, 2>>,
          <<401, 401, 1, 2>>, <<403, 403, 205, 2>>, <<404, 404, 207, 2>>,
          <<406, 406, 211, 2>>, <<407, 407, 209, 2>>, <<408, 408, 1, 2>>,
          <<412, 412, 211, 2>>, <<413, 413, 213, 2>>, <<415, 415, 214, 2>>,
          <<416, 420, 1, 0>>, <<422, 422, 218, 2>>, <<423, 423, 1, 2>>,
          <<425, 425, 218, 2>>, <<428, 428, 1, 2>>, <<430, 430, 218, 2>>,
          <<431, 431, 1, 2>>, <<433, 434, 217, 2>>, <<435, 437, 1, 1>>,
          <<439, 439, 219, 2>>, <<440, 440, 1, 2>>, <<444, 444, 1, 2>>,
          <<452, 452, 2, 2>>, <<453, 453, 1, 2>>, <<455, 455, 2, 2>>,
          <<456, 456, 1, 2>>, <<458, 458, 2, 2>>, <<459, 475, 1, 1>>,
          <<478, 494, 1, 0>>, <<497, 497, 2, 2>>, <<498, 500, 1, 0>>,
          <<502, 502, -97, 2>>, <<503, 503, -56, 2>>, <<504, 542, 1, 0>>,
          <<544, 544, -130, 2>>, <<546, 562, 1, 0>>, <<570, 570, 10795, 2>>,
          <<571, 571, 1, 2>>, <<573, 573, -163, 2>>, <<574, 574, 10792, 2>>,
          <<577, 577, 1, 2>>, <<579, 579, -195, 2>>, <<580, 580, 69, 2>>,
          <<581, 581, 71, 2>>, <<582, 590, 1, 0>>, <<880, 882, 1, 0>>,
          <<886, 886, 1, 2>>, <<895, 895, 116, 2>>, <<902, 902, 38, 2>>,
          <<904, 906, 37, 2>>, <<908, 908, 64, 2>>, <<910, 911, 63, 2>>,
          <<913, 929, 32, 2>>, <<931, 939, 32, 2>>, <<975, 975, 8, 2>>,
          <<984, 1006, 1, 0>>, <<1012, 1012, -60, 2>>, <<1015, 1015, 1, 2>>,
          <<1017, 1017, -7, 2>>, <<1018, 1018, 1, 2>>, <<1021, 1023, -130, 2>>,
          <<1024, 1039, 80, 2>>, <<1040, 1071, 32, 2>>, <<1120, 1152, 1, 0>>,
          <<1162, 1214, 1, 0>>, <<1216, 1216, 15, 2>>, <<1217, 1229, 1, 1>>,
          <<1232, 1326, 1, 0>>, <<1329, 1366, 48, 2>>, <<4256, 4293, 7264, 2>>,
          <<4295, 4295, 7264, 2>>, <<4301, 4301, 7264, 2>>,
          <<5024, 5103, 38864, 2>>, <<5104, 5109, 8, 2>>, <<7305, 7305, 1, 2>>,
          <<7312, 7354, -3008, 2>>, <<7357, 7359, -3008, 2>>,
          <<7680, 7828, 1, 0>>, <<7838, 7838, -7615, 2>>, <<7840, 7934, 1, 0>>,
          <<7944, 7951, -8, 2>>, <<7960, 7965, -8, 2>>, <<7976, 7983, -8, 2>>,
          <<7992, 7999, -8, 2>>, <<8008, 8013, -8, 2>>, <<8025, 8031, -8, 1>>,
          <<8040, 8047, -8, 2>>, <<8072, 8079, -8, 2>>, <<8088, 8095, -8, 2>>,
          <<8104, 8111, -8, 2>>, <<8120, 8121, -8, 2>>, <<8122, 8123, -74, 2>>,
          <<8124, 8124, -9, 2>>, <<8136, 8139, -86, 2>>, <<8140, 8140, -9, 2>>,
          <<8152, 8153, -8, 2>>, <<8154, 8155, -100, 2>>,
          <<8168, 8169, -8, 2>>, <<8170, 8171, -112, 2>>,
          <<8172, 8172, -7, 2>>, <<8184, 8185, -128, 2>>,
          <<8186, 8187, -126, 2>>, <<8188, 8188, -9, 2>>,
          <<8486, 8486, -7517, 2>>, <<8490, 8490, -8383, 2>>,
          <<8491, 8491, -8262, 2>>, <<8498, 8498, 28, 2>>,
          <<8544, 8559, 16, 2>>, <<8579, 8579, 1, 2>>, <<9398, 9423, 26, 2>>,
          <<11264, 11311, 48, 2>>, <<11360, 11360, 1, 2>>,
          <<11362, 11362, -10743, 2>>, <<11363, 11363, -3814, 2>>,
          <<11364, 11364, -10727, 2>>, <<11367, 11371, 1, 1>>,
          <<11373, 11373, -10780, 2>>, <<11374, 11374, -10749, 2>>,
          <<11375, 11375, -10783, 2>>, <<11376, 11376, -10782, 2>>,
          <<11378, 11378, 1, 2>>, <<11381, 11381, 1, 2>>,
          <<11390, 11391, -10815, 2>>, <<11392, 11490, 1, 0>>,
          <<11499, 11501, 1, 1>>, <<11506, 11506, 1, 2>>,
          <<42560, 42604, 1, 0>>, <<42624, 42650, 1, 0>>,
          <<42786, 42798, 1, 0>>, <<42802, 42862, 1, 0>>,
          <<42873, 42875, 1, 1>>, <<42877, 42877, -35332, 2>>,
          <<42878, 42886, 1, 0>>, <<42891, 42891, 1, 2>>,
          <<42893, 42893, -42280, 2>>, <<42896, 42898, 1, 0>>,
          <<42902, 42920, 1, 0>>, <<42922, 42922, -42308, 2>>,
          <<42923, 42923, -42319, 2>>, <<42924, 42924, -42315, 2>>,
          <<42925, 42925, -42305, 2>>, <<42926, 42926, -42308, 2>>,
          <<42928, 42928, -42258, 2>>, <<42929, 42929, -42282, 2>>,
          <<42930, 42930, -42261, 2>>, <<42931, 42931, 928, 2>>,
          <<42932, 42946, 1, 0>>, <<42948, 42948, -48, 2>>,
          <<42949, 42949, -42307, 2>>, <<42950, 42950, -35384, 2>>,
          <<42951, 42953, 1, 1>>, <<42955, 42955, -42343, 2>>,
          <<42956, 42970, 1, 0>>, <<42972, 42972, -42561, 2>>,
          <<42997, 42997, 1, 2>>, <<65313, 65338, 32, 2>>,
          <<66560, 66599, 40, 2>>, <<66736, 66771, 40, 2>>,
          <<66928, 66938, 39, 2>>, <<66940, 66954, 39, 2>>,
          <<66956, 66962, 39, 2>>, <<66964, 66965, 39, 2>>,
          <<68736, 68786, 64, 2>>, <<68944, 68965, 32, 2>>,
          <<71840, 71871, 32, 2>>, <<93760, 93791, 32, 2>>,
          <<93856, 93880, 27, 2>>, <<125184, 125217, 34, 2>> }
      \* the characters with the property Cased: first and last of a range
      cased ==
        { <<65, 90>>, <<97, 122>>, <<170, 170>>, <<181, 181>>, <<186, 186>>,
          <<192, 214>>, <<216, 246>>, <<248, 442>>, <<444, 447>>, <<452, 659>>,
          <<662, 696>>, <<704, 705>>, <<736, 740>>, <<837, 837>>, <<880, 883>>,
          <<886, 887>>, <<890, 893>>, <<895, 895>>, <<902, 902>>, <<904, 906>>,
          <<908, 908>>, <<910, 929>>, <<931, 1013>>, <<1015, 1153>>,
          <<1162, 1327>>, <<1329, 1366>>, <<1376, 1416>>, <<4256, 4293>>,
          <<4295, 4295>>, <<4301, 4301>>, <<4304, 4346>>, <<4348, 4351>>,
          <<5024, 5109>>, <<5112, 5117>>, <<7296, 7306>>, <<7312, 7354>>,
          <<7357, 7359>>, <<7424, 7615>>, <<7680, 7957>>, <<7960, 7965>>,
          <<7968, 8005>>, <<8008, 8013>>, <<8016, 8023>>, <<8025, 8025>>,
          <<8027, 8027>>, <<8029, 8029>>, <<8031, 8061>>, <<8064, 8116>>,
          <<8118, 8124>>, <<8126, 8126>>, <<8130, 8132>>, <<8134, 8140>>,
          <<8144, 8147>>, <<8150, 8155>>, <<8160, 8172>>, <<8178, 8180>>,
          <<8182, 8188>>, <<8305, 8305>>, <<8319, 8319>>, <<8336, 8348>>,
          <<8450, 8450>>, <<8455, 8455>>, <<8458, 8467>>, <<8469, 8469>>,
          <<8473, 8477>>, <<8484, 8484>>, <<8486, 8486>>, <<8488, 8488>>,
          <<8490, 8493>>, <<8495, 8500>>, <<8505, 8505>>, <<8508, 8511>>,
          <<8517, 8521>>, <<8526, 8526>>, <<8544, 8575>>, <<8579, 8580>>,
          <<9398, 9449>>, <<11264, 11492>>, <<11499, 11502>>, <<11506, 11507>>,
          <<11520, 11557>>, <<11559, 11559>>, <<11565, 11565>>,
          <<42560, 42605>>, <<42624, 42653>>, <<42786, 42887>>,
          <<42891, 42894>>, <<42896, 42972>>, <<42993, 42998>>,
          <<43000, 43002>>, <<43824, 43866>>, <<43868, 43881>>,
          <<43888, 43967>>, <<64256, 64262>>, <<64275, 64279>>,
          <<65313, 65338>>, <<65345, 65370>>, <<66560, 66639>>,
          <<66736, 66771>>, <<66776, 66811>>, <<66928, 66938>>,
          <<66940, 66954>>, <<66956, 66962>>, <<66964, 66965>>,
          <<66967, 66977>>, <<66979, 66993>>, <<66995, 67001>>,
          <<67003, 67004>>, <<67456, 67456>>, <<67459, 67461>>,
          <<67463, 67504>>, <<67506, 67514>>, <<68736, 68786>>,
          <<68800, 68850>>, <<68944, 68965>>, <<68976, 68997>>,
          <<71840, 71903>>, <<93760, 93823>>, <<93856, 93880>>,
          <<93883, 93907>>, <<119808, 119892>>, <<119894, 119964>>,
          <<119966, 119967>>, <<119970, 119970>>, <<119973, 119974>>,
          <<119977, 119980>>, <<119982, 119993>>, <<119995, 119995>>,
          <<119997, 120003>>, <<120005, 120069>>, <<120071, 120074>>,
          <<120077, 120084>>, <<120086, 120092>>, <<120094, 120121>>,
          <<120123, 120126>>, <<120128, 120132>>, <<120134, 120134>>,
          <<120138, 120144>>, <<120146, 120485>>, <<120488, 120512>>,
          <<120514, 120538>>, <<120540, 120570>>, <<120572, 120596>>,
          <<120598, 120628>>, <<120630, 120654>>, <<120656, 120686>>,
          <<120688, 120712>>, <<120714, 120744>>, <<120746, 120770>>,
          <<120772, 120779>>, <<122624, 122633>>, <<122635, 122654>>,
          <<122661, 122666>>, <<122928, 122989>>, <<125184, 125251>>,
          <<127280, 127305>>, <<127312, 127337>>, <<127344, 127369>> }
      \* the characters with the property Case_Ignorable
      caseIgnorable ==
        { <<39, 39>>, <<46, 46>>, <<58, 58>>, <<94, 94>>, <<96, 96>>,
          <<168, 168>>, <<173, 173>>, <<175, 175>>, <<180, 180>>, <<183, 184>>,
          <<688, 879>>, <<884, 885>>, <<890, 890>>, <<900, 901>>, <<903, 903>>,
          <<1155, 1161>>, <<1369, 1369>>, <<1375, 1375>>, <<1425, 1469>>,
          <<1471, 1471>>, <<1473, 1474>>, <<1476, 1477>>, <<1479, 1479>>,
          <<1524, 1524>>, <<1536, 1541>>, <<1552, 1562>>, <<1564, 1564>>,
          <<1600, 1600>>, <<1611, 1631>>, <<1648, 1648>>, <<1750, 1757>>,
          <<1759, 1768>>, <<1770, 1773>>, <<1807, 1807>>, <<1809, 1809>>,
          <<1840, 1866>>, <<1958, 1968>>, <<2027, 2037>>, <<2042, 2042>>,
          <<2045, 2045>>, <<2070, 2093>>, <<2137, 2139>>, <<2184, 2184>>,
          <<2192, 2193>>, <<2199, 2207>>, <<2249, 2306>>, <<2362, 2362>>,
          <<2364, 2364>>, <<2369, 2376>>, <<2381, 2381>>, <<2385, 2391>>,
          <<2402, 2403>>, <<2417, 2417>>, <<2433, 2433>>, <<2492, 2492>>,
          <<2497, 2500>>, <<2509, 2509>>, <<2530, 2531>>, <<2558, 2558>>,
          <<2561, 2562>>, <<2620, 2620>>, <<2625, 2626>>, <<2631, 2632>>,
          <<2635, 2637>>, <<2641, 2641>>, <<2672, 2673>>, <<2677, 2677>>,
          <<2689, 2690>>, <<2748, 2748>>, <<2753, 2757>>, <<2759, 2760>>,
          <<2765, 2765>>, <<2786, 2787>>, <<2810, 2815>>, <<2817, 2817>>,
          <<2876, 2876>>, <<2879, 2879>>, <<2881, 2884>>, <<2893, 2893>>,
          <<2901, 2902>>, <<2914, 2915>>, <<2946, 2946>>, <<3008, 3008>>,
          <<3021, 3021>>, <<3072, 3072>>, <<3076, 3076>>, <<3132, 3132>>,
          <<3134, 3136>>, <<3142, 3144>>, <<3146, 3149>>, <<3157, 3158>>,
          <<3170, 3171>>, <<3201, 3201>>, <<3260, 3260>>, <<3263, 3263>>,
          <<3270, 3270>>, <<3276, 3277>>, <<3298, 3299>>, <<3328, 3329>>,
          <<3387, 3388>>, <<3393, 3396>>, <<3405, 3405>>, <<3426, 3427>>,
          <<3457, 3457>>, <<3530, 3530>>, <<3538, 3540>>, <<3542, 3542>>,
          <<3633, 3633>>, <<3636, 3642>>, <<3654, 3662>>, <<3761, 3761>>,
          <<3764, 3772>>, <<3782, 3782>>, <<3784, 3790>>, <<3864, 3865>>,
          <<3893, 3893>>, <<3895, 3895>>, <<3897, 3897>>, <<3953, 3966>>,
          <<3968, 3972>>, <<3974, 3975>>, <<3981, 3991>>, <<3993, 4028>>,
          <<4038, 4038>>, <<4141, 4144>>, <<4146, 4151>>, <<4153, 4154>>,
          <<4157, 4158>>, <<4184, 4185>>, <<4190, 4192>>, <<4209, 4212>>,
          <<4226, 4226>>, <<4229, 4230>>, <<4237, 4237>>, <<4253, 4253>>,
          <<4348, 4348>>, <<4957, 4959>>, <<5906, 5908>>, <<5938, 5939>>,
          <<5970, 5971>>, <<6002, 6003>>, <<6068, 6069>>, <<6071, 6077>>,
          <<6086, 6086>>, <<6089, 6099>>, <<6103, 6103>>, <<6109, 6109>>,
          <<6155, 6159>>, <<6211, 6211>>, <<6277, 6278>>, <<6313, 6313>>,
          <<6432, 6434>>, <<6439, 6440>>, <<6450, 6450>>, <<6457, 6459>>,
          <<6679, 6680>>, <<6683, 6683>>, <<6742, 6742>>, <<6744, 6750>>,
          <<6752, 6752>>, <<6754, 6754>>, <<6757, 6764>>, <<6771, 6780>>,
          <<6783, 6783>>, <<6823, 6823>>, <<6832, 6877>>, <<6880, 6891>>,
          <<6912, 6915>>, <<6964, 6964>>, <<6966, 6970>>, <<6972, 6972>>,
          <<6978, 6978>>, <<7019, 7027>>, <<7040, 7041>>, <<7074, 7077>>,
          <<7080, 7081>>, <<7083, 7085>>, <<7142, 7142>>, <<7144, 7145>>,
          <<7149, 7149>>, <<7151, 7153>>, <<7212, 7219>>, <<7222, 7223>>,
          <<7288, 7293>>, <<7376, 7378>>, <<7380, 7392>>, <<7394, 7400>>,
          <<7405, 7405>>, <<7412, 7412>>, <<7416, 7417>>, <<7468, 7530>>,
          <<7544, 7544>>, <<7579, 7679>>, <<8125, 8125>>, <<8127, 8129>>,
          <<8141, 8143>>, <<8157, 8159>>, <<8173, 8175>>, <<8189, 8190>>,
          <<8203, 8207>>, <<8216, 8217>>, <<8228, 8228>>, <<8231, 8231>>,
          <<8234, 8238>>, <<8288, 8292>>, <<8294, 8303>>, <<8305, 8305>>,
          <<8319, 8319>>, <<8336, 8348>>, <<8400, 8432>>, <<11388, 11389>>,
          <<11503, 11505>>, <<11631, 11631>>, <<11647, 11647>>,
          <<11744, 11775>>, <<11823, 11823>>, <<12293, 12293>>,
          <<12330, 12333>>, <<12337, 12341>>, <<12347, 12347>>,
          <<12441, 12446>>, <<12540, 12542>>, <<40981, 40981>>,
          <<42232, 42237>>, <<42508, 42508>>, <<42607, 42610>>,
          <<42612, 42621>>, <<42623, 42623>>, <<42652, 42655>>,
          <<42736, 42737>>, <<42752, 42785>>, <<42864, 42864>>,
          <<42888, 42890>>, <<42993, 42996>>, <<43000, 43001>>,
          <<43010, 43010>>, <<43014, 43014>>, <<43019, 43019>>,
          <<43045, 43046>>, <<43052, 43052>>, <<43204, 43205>>,
          <<43232, 43249>>, <<43263, 43263>>, <<43302, 43309>>,
          <<43335, 43345>>, <<43392, 43394>>, <<43443, 43443>>,
          <<43446, 43449>>, <<43452, 43453>>, <<43471, 43471>>,
          <<43493, 43494>>, <<43561, 43566>>, <<43569, 43570>>,
          <<43573, 43574>>, <<43587, 43587>>, <<43596, 43596>>,
          <<43632, 43632>>, <<43644, 43644>>, <<43696, 43696>>,
          <<43698, 43700>>, <<43703, 43704>>, <<43710, 43711>>,
          <<43713, 43713>>, <<43741, 43741>>, <<43756, 43757>>,
          <<43763, 43764>>, <<43766, 43766>>, <<43867, 43871>>,
          <<43881, 43883>>, <<44005, 44005>>, <<44008, 44008>>,
          <<44013, 44013>>, <<64286, 64286>>, <<64434, 64450>>,
          <<65024, 65039>>, <<65043, 65043>>, <<65056, 65071>>,
          <<65106, 65106>>, <<65109, 65109>>, <<65279, 65279>>,
          <<65287, 65287>>, <<65294, 65294>>, <<65306, 65306>>,
          <<65342, 65342>>, <<65344, 65344>>, <<65392, 65392>>,
          <<65438, 65439>>, <<65507, 65507>>, <<65529, 65531>>,
          <<66045, 66045>>, <<66272, 66272>>, <<66422, 66426>>,
          <<67456, 67461>>, <<67463, 67504>>, <<67506, 67514>>,
          <<68097, 68099>>, <<68101, 68102>>, <<68108, 68111>>,
          <<68152, 68154>>, <<68159, 68159>>, <<68325, 68326>>,
          <<68900, 68903>>, <<68942, 68942>>, <<68969, 68973>>,
          <<68975, 68975>>, <<69291, 69292>>, <<69317, 69317>>,
          <<69370, 69375>>, <<69446, 69456>>, <<69506, 69509>>,
          <<69633, 69633>>, <<69688, 69702>>, <<69744, 69744>>,
          <<69747, 69748>>, <<69759, 69761>>, <<69811, 69814>>,
          <<69817, 69818>>, <<69821, 69821>>, <<69826, 69826>>,
          <<69837, 69837>>, <<69888, 69890>>, <<69927, 69931>>,
          <<69933, 69940>>, <<70003, 70003>>, <<70016, 70017>>,
          <<70070, 70078>>, <<70089, 70092>>, <<70095, 70095>>,
          <<70191, 70193>>, <<70196, 70196>>, <<70198, 70199>>,
          <<70206, 70206>>, <<70209, 70209>>, <<70367, 70367>>,
          <<70371, 70378>>, <<70400, 70401>>, <<70459, 70460>>,
          <<70464, 70464>>, <<70502, 70508>>, <<70512, 70516>>,
          <<70587, 70592>>, <<70606, 70606>>, <<70608, 70608>>,
          <<70610, 70610>>, <<70625, 70626>>, <<70712, 70719>>,
          <<70722, 70724>>, <<70726, 70726>>, <<70750, 70750>>,
          <<70835, 70840>>, <<70842, 70842>>, <<70847, 70848>>,
          <<70850, 70851>>, <<71090, 71093>>, <<71100, 71101>>,
          <<71103, 71104>>, <<71132, 71133>>, <<71219, 71226>>,
          <<71229, 71229>>, <<71231, 71232>>, <<71339, 71339>>,
          <<71341, 71341>>, <<71344, 71349>>, <<71351, 71351>>,
          <<71453, 71453>>, <<71455, 71455>>, <<71458, 71461>>,
          <<71463, 71467>>, <<71727, 71735>>, <<71737, 71738>>,
          <<71995, 71996>>, <<71998, 71998>>, <<72003, 72003>>,
          <<72148, 72151>>, <<72154, 72155>>, <<72160, 72160>>,
          <<72193, 72202>>, <<72243, 72248>>, <<72251, 72254>>,
          <<72263, 72263>>, <<72273, 72278>>, <<72281, 72283>>,
          <<72330, 72342>>, <<72344, 72345>>, <<72544, 72544>>,
          <<72546, 72548>>, <<72550, 72550>>, <<72752, 72758>>,
          <<72760, 72765>>, <<72767, 72767>>, <<72850, 72871>>,
          <<72874, 72880>>, <<72882, 72883>>, <<72885, 72886>>,
          <<73009, 73014>>, <<73018, 73018>>, <<73020, 73021>>,
          <<73023, 73029>>, <<73031, 73031>>, <<73104, 73105>>,
          <<73109, 73109>>, <<73111, 73111>>, <<73177, 73177>>,
          <<73459, 73460>>, <<73472, 73473>>, <<73526, 73530>>,
          <<73536, 73536>>, <<73538, 73538>>, <<73562, 73562>>,
          <<78896, 78912>>, <<78919, 78933>>, <<90398, 90409>>,
          <<90413, 90415>>, <<92912, 92916>>, <<92976, 92982>>,
          <<92992, 92995>>, <<93504, 93506>>, <<93547, 93548>>,
          <<94031, 94031>>, <<94095, 94111>>, <<94176, 94177>>,
          <<94179, 94180>>, <<94194, 94195>>, <<110576, 110579>>,
          <<110581, 110587>>, <<110589, 110590>>, <<113821, 113822>>,
          <<113824, 113827>>, <<118528, 118573>>, <<118576, 118598>>,
          <<119143, 119145>>, <<119155, 119170>>, <<119173, 119179>>,
          <<119210, 119213>>, <<119362, 119364>>, <<121344, 121398>>,
          <<121403, 121452>>, <<121461, 121461>>, <<121476, 121476>>,
          <<121499, 121503>>, <<121505, 121519>>, <<122880, 122886>>,
          <<122888, 122904>>, <<122907, 122913>>, <<122915, 122916>>,
          <<122918, 122922>>, <<122928, 122989>>, <<123023, 123023>>,
          <<123184, 123197>>, <<123566, 123566>>, <<123628, 123631>>,
          <<124139, 124143>>, <<124398, 124399>>, <<124643, 124643>>,
          <<124646, 124646>>, <<124654, 124655>>, <<124661, 124661>>,
          <<124671, 124671>>, <<125136, 125142>>, <<125252, 125259>>,
          <<127995, 127999>>, <<917505, 917505>>, <<917536, 917631>>,
          <<917760, 917999>> }
      IsLead(t, i) ==
        i < Len(t) /\ t[i] \in 55296..56319 /\ t[i + 1] \in 56320..57343
      IsTrail(t, i) ==
        i > 1 /\ t[i] \in 56320..57343 /\ t[i - 1] \in 55296..56319
      \* the character that the code unit t[i] is, or is one half of
      CodePoint(t, i) ==
        IF IsLead(t, i) THEN 65536 + (t[i] - 55296) * 1024 + (t[i + 1] - 56320)
        ELSE IF IsTrail(t, i) THEN 65536 + (t[i - 1] - 55296) * 1024 + (t[i] - 56320)
        ELSE t[i]
      Lower(c) ==
        CHOOSE l \in
          { IF rows = {} THEN c ELSE c + (CHOOSE row \in rows : TRUE)[3] :
            rows \in { {row \in capitals : /\ row[1] <= c
                                           /\ c <= row[2]
                                           /\ row[4] \in {2, c % 2}} } } : TRUE
      Cased(c) == \E row \in cased : row[1] <= c /\ c <= row[2]
      CaseIgnorable(c) == \E row \in caseIgnorable : row[1] <= c /\ c <= row[2]
      \* t[j] is of a cased letter that is not case-ignorable, and every
      \* character between it and t[i] is case-ignorable
      Reaches(t, i, j) ==
        /\ Cased(CodePoint(t, j))
        /\ \A m \in (IF j < i THEN j ELSE i + 1)..(IF j < i THEN i - 1 ELSE j) :
             CaseIgnorable(CodePoint(t, m)) # (m = j)
      FinalSigma(t, i) ==
        \E reached \in { {j \in 1..Len(t) : j # i /\ Reaches(t, i, j)} } :
          (\E j \in reached : j < i) /\ ~(\E j \in reached : j > i)
      \* the half of the character c that the code unit t[i] is
      Half(t, i, c) ==
        IF c < 65536 THEN c
        ELSE IF IsLead(t, i) THEN 55296 + ((c - 65536) \div 1024)
        ELSE 56320 + ((c - 65536) % 1024)
      \* what the code unit t[i] becomes (the letters of Basic Latin, and the
      \* scripts from Hebrew to Myanmar, which have no capitals, at once)
      Unit(t, i) ==
        IF t[i] < 128 THEN (IF t[i] >= 65 /\ t[i] <= 90 THEN t[i] + 32 ELSE t[i])
        ELSE IF t[i] > 1416 /\ t[i] < 4256 THEN t[i]
        ELSE IF t[i] = 931 THEN (IF FinalSigma(t, i) THEN 962 ELSE 963)
        ELSE Half(t, i, Lower(CodePoint(t, i)))
      \* the code units the characters up to t[i] have become
      LengthUpTo(t, i) == i + Cardinality({m \in 1..i : t[m] = 304})
      At(t, j, dotted) ==
        CHOOSE unit \in
          { IF t[i] = 304 THEN (IF j = LengthUpTo(t, i) THEN 775 ELSE 105)
            ELSE Unit(t, i) :
            i \in { IF dotted
                    THEN CHOOSE i \in 1..Len(t) :
                           LengthUpTo(t, i - 1) < j /\ j <= LengthUpTo(t, i)
                    ELSE j } } : TRUE
  IN CHOOSE lower \in
       UNION { { [j \in 1..(IF dotted THEN LengthUpTo(t, Len(t)) ELSE Len(t)) |->
                   At(t, j, dotted)] \o <<>> :
                 dotted \in { \E i \in 1..Len(t) : t[i] = 304 } } :
               t \in {s} } : TRUE

\* String.prototype.trim: the string from its first to its last character
\* that is not white space.  (The string is bound to t so that it is
\* evaluated once.)
trim(s) ==
  CHOOSE trimmed \in
    { IF \A i \in 1..Len(t) : IsWhiteSpace(t[i]) THEN <<>>
      ELSE SubSeq(t,
                  CHOOSE lo \in 1..Len(t) :
                    ~IsWhiteSpace(t[lo]) /\ \A j \in 1..(lo - 1) : IsWhiteSpace(t[j]),
                  CHOOSE hi \in 1..Len(t) :
                    ~IsWhiteSpace(t[hi]) /\ \A j \in (hi + 1)..Len(t) : IsWhiteSpace(t[j])) :
      t \in {s} } : TRUE

\* The literal w occurs in s at position i (1-based).
LitAt(s, i, w) ==
  /\ i >= 1
  /\ i + Len(w) - 1 <= Len(s)
  /\ \A k \in 1..Len(w) : s[i + k - 1] = w[k]

\* s.includes(w), the test of an unanchored literal pattern.
Contains(s, w) == \E i \in 1..(Len(s) - Len(w) + 1) : LitAt(s, i, w)

\* \b between the characters i-1 and i of s (i in 1..Len(s)+1).
WordBoundaryAt(s, i) ==
  LET before == i > 1 /\ i - 1 <= Len(s) /\ IsWordChar(s[i - 1])
      after == i >= 1 /\ i <= Len(s) /\ IsWordChar(s[i])
  IN before # after

\* /\bw\b/ matches s.
ContainsWord(s, w) ==
  \E i \in 1..(Len(s) - Len(w) + 1) :
    LitAt(s, i, w) /\ WordBoundaryAt(s, i) /\ WordBoundaryAt(s, i + Len(w))

\* The first index of the character c in s, 0 when there is none.
IndexOfChar(s, c) ==
  IF \E i \in 1..Len(s) : s[i] = c
  THEN CHOOSE i \in 1..Len(s) : s[i] = c /\ \A j \in 1..(i - 1) : s[j] # c
  ELSE 0

\* n copies of the character c.
Repeat(c, n) == [i \in 1..n |-> c] \o <<>>

\* ------------------------------------------------------------------------
\* Tables
\* ------------------------------------------------------------------------

\* String literals the source compares with.
sEn == <<101, 110>>                                     \* 'en'
sEnglish == <<101, 110, 103, 108, 105, 115, 104>>      \* 'english'
sHindi == <<104, 105, 110, 100, 105>>                   \* 'hindi'
sUnknown == <<117, 110, 107, 110, 111, 119, 110>>      \* 'unknown'
sTamil == <<116, 97, 109, 105, 108>>                    \* 'tamil'

\* explicitPatterns: per language the words of /\bw1\b|\bw2\b/i, in the order of
\* the object literal (Object.entries keeps insertion order).
explicitPatterns ==
  <<
    [language |-> <<116, 97, 109, 105, 108>>,  \* tamil
     words |-> <<
       <<116, 97, 109, 105, 108>>,  \* "tamil"
       <<116, 97, 109, 105, 122, 104>>  \* "tamizh"
     >>],
    [language |-> <<116, 101, 108, 117, 103, 117>>,  \* telugu
     words |-> <<
       <<116, 101, 108, 117, 103, 117>>  \* "telugu"
     >>],
    [language |-> <<107, 97, 110, 110, 97, 100, 97>>,  \* kannada
     words |-> <<
       <<107, 97, 110, 110, 97, 100, 97>>  \* "kannada"
     >>],
    [language |-> <<109, 97, 108, 97, 121, 97, 108, 97, 109>>,  \* malayalam
     words |-> <<
       <<109, 97, 108, 97, 121, 97, 108, 97, 109>>  \* "malayalam"
     >>],
    [language |-> <<104, 105, 110, 100, 105>>,  \* hindi
     words |-> <<
       <<104, 105, 110, 100, 105>>  \* "hindi"
     >>],
    [language |-> <<98, 101, 110, 103, 97, 108, 105>>,  \* bengali
     words |-> <<
       <<98, 101, 110, 103, 97, 108, 105>>,  \* "bengali"
       <<98, 97, 110, 103, 108, 97>>  \* "bangla"
     >>],
    [language |-> <<109, 97, 114, 97, 116, 104, 105>>,  \* marathi
     words |-> <<
       <<109, 97, 114, 97, 116, 104, 105>>  \* "marathi"
     >>],
    [language |-> <<112, 117, 110, 106, 97, 98, 105>>,  \* punjabi
     words |-> <<
       <<112, 117, 110, 106, 97, 98, 105>>,  \* "punjabi"
       <<112, 117, 110, 106, 97, 98>>  \* "punjab"
     >>],
    [language |-> <<103, 117, 106, 97, 114, 97, 116, 105>>,  \* gujarati
     words |-> <<
       <<103, 117, 106, 97, 114, 97, 116, 105>>  \* "gujarati"
     >>],
    [language |-> <<101, 110, 103, 108, 105, 115, 104>>,  \* english
     words |-> <<
       <<101, 110, 103, 108, 105, 115, 104>>  \* "english"
     >>],
    [language |-> <<117, 114, 100, 117>>,  \* urdu
     words |-> <<
       <<117, 114, 100, 117>>  \* "urdu"
     >>],
    [language |-> <<98, 104, 111, 106, 112, 117, 114, 105>>,  \* bhojpuri
     words |-> <<
       <<98, 104, 111, 106, 112, 117, 114, 105>>  \* "bhojpuri"
     >>]
  >>

\* languageMentions: per language the names n of /\b(n1|n2)\s+(keyword)\b/i.
languageMentions ==
  <<
    [language |-> <<116, 97, 109, 105, 108>>,  \* tamil
     words |-> <<
       <<116, 97, 109, 105, 108>>,  \* "tamil"
       <<116, 97, 109, 105, 122, 104>>  \* "tamizh"
     >>],
    [language |-> <<116, 101, 108, 117, 103, 117>>,  \* telugu
     words |-> <<
       <<116, 101, 108, 117, 103, 117>>  \* "telugu"
     >>],
    [language |-> <<104, 105, 110, 100, 105>>,  \* hindi
     words |-> <<
       <<104, 105, 110, 100, 105>>  \* "hindi"
     >>],
    [language |-> <<107, 97, 110, 110, 97, 100, 97>>,  \* kannada
     words |-> <<
       <<107, 97, 110, 110, 97, 100, 97>>  \* "kannada"
     >>],
    [language |-> <<109, 97, 108, 97, 121, 97, 108, 97, 109>>,  \* malayalam
     words |-> <<
       <<109, 97, 108, 97, 121, 97, 108, 97, 109>>  \* "malayalam"
     >>],
    [language |-> <<98, 101, 110, 103, 97, 108, 105>>,  \* bengali
     words |-> <<
       <<98, 101, 110, 103, 97, 108, 105>>,  \* "bengali"
       <<98, 97, 110, 103, 108, 97>>  \* "bangla"
     >>],
    [language |-> <<109, 97, 114, 97, 116, 104, 105>>,  \* marathi
     words |-> <<
       <<109, 97, 114, 97, 116, 104, 105>>  \* "marathi"
     >>],
    [language |-> <<103, 117, 106, 97, 114, 97, 116, 105>>,  \* gujarati
     words |-> <<
       <<103, 117, 106, 97, 114, 97, 116, 105>>  \* "gujarati"
     >>],
    [language |-> <<112, 117, 110, 106, 97, 98, 105>>,  \* punjabi
     words |-> <<
       <<112, 117, 110, 106, 97, 98, 105>>  \* "punjabi"
     >>]
  >>

\* The keyword group shared by every languageMentions pattern.
mentionKeywords ==
  <<
    <<108, 97, 110, 103, 117, 97, 103, 101>>,  \* "language"
    <<99, 104, 97, 110, 110, 101, 108>>,  \* "channel"
    <<116, 118>>,  \* "tv"
    <<109, 117, 115, 105, 99>>,  \* "music"
    <<110, 101, 119, 115>>,  \* "news"
    <<99, 105, 110, 101, 109, 97>>,  \* "cinema"
    <<109, 111, 118, 105, 101, 115>>,  \* "movies"
    <<115, 97, 116, 101, 108, 108, 105, 116, 101>>  \* "satellite"
  >>

\* detectLanguageFromResources' patterns: per code the literal alternatives, the
\* class [-_] written out as its two members.
resourcePatterns ==
  <<
    [language |-> <<116, 97>>,  \* ta
     words |-> <<
       <<116, 97, 109, 105, 108>>,  \* "tamil"
       <<116, 97, 45, 105, 110>>,  \* "ta-in"
       <<116, 97, 95, 105, 110>>  \* "ta_in"
     >>],
    [language |-> <<116, 101>>,  \* te
     words |-> <<
       <<116, 101, 108, 117, 103, 117>>,  \* "telugu"
       <<116, 101, 45, 105, 110>>,  \* "te-in"
       <<116, 101, 95, 105, 110>>  \* "te_in"
     >>],
    [language |-> <<104, 105>>,  \* hi
     words |-> <<
       <<104, 105, 110, 100, 105>>,  \* "hindi"
       <<104, 105, 45, 105, 110>>,  \* "hi-in"
       <<104, 105, 95, 105, 110>>  \* "hi_in"
     >>],
    [language |-> <<107, 110>>,  \* kn
     words |-> <<
       <<107, 97, 110, 110, 97, 100, 97>>,  \* "kannada"
       <<107, 110, 45, 105, 110>>,  \* "kn-in"
       <<107, 110, 95, 105, 110>>  \* "kn_in"
     >>],
    [language |-> <<109, 108>>,  \* ml
     words |-> <<
       <<109, 97, 108, 97, 121, 97, 108, 97, 109>>,  \* "malayalam"
       <<109, 108, 45, 105, 110>>,  \* "ml-in"
       <<109, 108, 95, 105, 110>>  \* "ml_in"
     >>],
    [language |-> <<98, 110>>,  \* bn
     words |-> <<
       <<98, 101, 110, 103, 97, 108, 105>>,  \* "bengali"
       <<98, 97, 110, 103, 108, 97>>,  \* "bangla"
       <<98, 110, 45, 105, 110>>,  \* "bn-in"
       <<98, 110, 95, 105, 110>>  \* "bn_in"
     >>],
    [language |-> <<109, 114>>,  \* mr
     words |-> <<
       <<109, 97, 114, 97, 116, 104, 105>>,  \* "marathi"
       <<109, 114, 45, 105, 110>>,  \* "mr-in"
       <<109, 114, 95, 105, 110>>  \* "mr_in"
     >>],
    [language |-> <<103, 117>>,  \* gu
     words |-> <<
       <<103, 117, 106, 97, 114, 97, 116, 105>>,  \* "gujarati"
       <<103, 117, 45, 105, 110>>,  \* "gu-in"
       <<103, 117, 95, 105, 110>>  \* "gu_in"
     >>],
    [language |-> <<112, 97>>,  \* pa
     words |-> <<
       <<112, 117, 110, 106, 97, 98, 105>>,  \* "punjabi"
       <<112, 97, 45, 105, 110>>,  \* "pa-in"
       <<112, 97, 95, 105, 110>>  \* "pa_in"
     >>],
    [language |-> <<101, 110>>,  \* en
     words |-> <<
       <<101, 110, 45, 117, 115>>,  \* "en-us"
       <<101, 110, 95, 117, 115>>,  \* "en_us"
       <<101, 110, 45, 103, 98>>,  \* "en-gb"
       <<101, 110, 95, 103, 98>>,  \* "en_gb"
       <<101, 110, 103, 108, 105, 115, 104>>  \* "english"
     >>]
  >>

\* normalizeLanguageCode's langMap: full language name -> ISO 639-1 code.
langMap ==
  <<
    [name |-> <<116, 97, 109, 105, 108>>, code |-> <<116, 97>>],  \* tamil: ta
    [name |-> <<116, 101, 108, 117, 103, 117>>, code |-> <<116, 101>>],  \* telugu: te
    [name |-> <<104, 105, 110, 100, 105>>, code |-> <<104, 105>>],  \* hindi: hi
    [name |-> <<107, 97, 110, 110, 97, 100, 97>>, code |-> <<107, 110>>],  \* kannada: kn
    [name |-> <<109, 97, 108, 97, 121, 97, 108, 97, 109>>, code |-> <<109, 108>>],  \* malayalam: ml
    [name |-> <<101, 110, 103, 108, 105, 115, 104>>, code |-> <<101, 110>>],  \* english: en
    [name |-> <<98, 101, 110, 103, 97, 108, 105>>, code |-> <<98, 110>>],  \* bengali: bn
    [name |-> <<98, 97, 110, 103, 108, 97>>, code |-> <<98, 110>>],  \* bangla: bn
    [name |-> <<109, 97, 114, 97, 116, 104, 105>>, code |-> <<109, 114>>],  \* marathi: mr
    [name |-> <<112, 117, 110, 106, 97, 98, 105>>, code |-> <<112, 97>>],  \* punjabi: pa
    [name |-> <<103, 117, 106, 97, 114, 97, 116, 105>>, code |-> <<103, 117>>],  \* gujarati: gu
    [name |-> <<117, 114, 100, 117>>, code |-> <<117, 114>>],  \* urdu: ur
    [name |-> <<97, 115, 115, 97, 109, 101, 115, 101>>, code |-> <<97, 115>>],  \* assamese: as
    [name |-> <<111, 100, 105, 97>>, code |-> <<111, 114>>],  \* odia: or
    [name |-> <<111, 114, 105, 121, 97>>, code |-> <<111, 114>>]  \* oriya: or
  >>

\* LANGUAGE_CODES: language name -> ISO 639-1 code (and unknown -> unknown).
LANGUAGE_CODES ==
  <<
    [name |-> <<116, 97, 109, 105, 108>>, code |-> <<116, 97>>],  \* tamil: ta
    [name |-> <<116, 101, 108, 117, 103, 117>>, code |-> <<116, 101>>],  \* telugu: te
    [name |-> <<104, 105, 110, 100, 105>>, code |-> <<104, 105>>],  \* hindi: hi
    [name |-> <<107, 97, 110, 110, 97, 100, 97>>, code |-> <<107, 110>>],  \* kannada: kn
    [name |-> <<109, 97, 108, 97, 121, 97, 108, 97, 109>>, code |-> <<109, 108>>],  \* malayalam: ml
    [name |-> <<101, 110, 103, 108, 105, 115, 104>>, code |-> <<101, 110>>],  \* english: en
    [name |-> <<98, 101, 110, 103, 97, 108, 105>>, code |-> <<98, 110>>],  \* bengali: bn
    [name |-> <<109, 97, 114, 97, 116, 104, 105>>, code |-> <<109, 114>>],  \* marathi: mr
    [name |-> <<112, 117, 110, 106, 97, 98, 105>>, code |-> <<112, 97>>],  \* punjabi: pa
    [name |-> <<103, 117, 106, 97, 114, 97, 116, 105>>, code |-> <<103, 117>>],  \* gujarati: gu
    [name |-> <<117, 114, 100, 117>>, code |-> <<117, 114>>],  \* urdu: ur
    [name |-> <<98, 104, 111, 106, 112, 117, 114, 105>>, code |-> <<98, 104>>],  \* bhojpuri: bh
    [name |-> <<97, 115, 115, 97, 109, 101, 115, 101>>, code |-> <<97, 115>>],  \* assamese: as
    [name |-> <<111, 100, 105, 97>>, code |-> <<111, 114>>],  \* odia: or
    [name |-> <<117, 110, 107, 110, 111, 119, 110>>, code |-> <<117, 110, 107, 110, 111, 119, 110>>]  \* unknown: unknown
  >>

\* LANGUAGE_PATTERNS: per language the alternatives of its regular expression, in
\* the order of the object literal. An alternative is parts joined by .* ; an
\* optional character ("news ?7") is written out as the two literals it stands
\* for; notAfter are the literals of a negative lookahead (?!.*l1|.*l2|...) that
\* follows the last part, and wordEnd is a \b after it.
LANGUAGE_PATTERNS ==
  <<
    [language |-> <<116, 97, 109, 105, 108>>,  \* tamil
     alts |-> <<
       [parts |-> <<<<116, 97, 109, 105, 108>>>>, notAfter |-> <<>>, wordEnd |-> FALSE],  \* tamil
       [parts |-> <<<<115, 117, 110, 32, 116, 118>>>>, notAfter |-> <<>>, wordEnd |-> FALSE],  \* sun tv
       [parts |-> <<<<114, 97, 106, 32, 116, 118>>>>, notAfter |-> <<>>, wordEnd |-> FALSE],  \* raj tv
       [parts |-> <<<<114, 97, 106, 32, 109, 117, 115, 105, 120>>>>, notAfter |-> <<>>, wordEnd |-> FALSE],  \* raj musix
       [parts |-> <<<<107, 97, 108, 97, 105, 103, 110, 97, 114>>>>, notAfter |-> <<>>, wordEnd |-> FALSE],  \* kalaignar
       [parts |-> <<<<118, 105, 106, 97, 121>>>>, notAfter |-> <<>>, wordEnd |-> FALSE],  \* vijay
       [parts |-> <<<<112, 117, 116, 104, 105, 121, 97>>>>, notAfter |-> <<>>, wordEnd |-> FALSE],  \* puthiya
       [parts |-> <<<<116, 104, 97, 110, 116, 104, 105>>>>, notAfter |-> <<>>, wordEnd |-> FALSE],  \* thanthi
       [parts |-> <<<<112, 111, 108, 105, 109, 101, 114>>>>, notAfter |-> <<>>, wordEnd |-> FALSE],  \* polimer
       [parts |-> <<<<110, 101, 119, 115, 32, 55, 32, 116, 97, 109, 105, 108>>>>, notAfter |-> <<>>, wordEnd |-> FALSE],  \* news ?7 tamil  as "news 7 tamil"
       [parts |-> <<<<110, 101, 119, 115, 55, 32, 116, 97, 109, 105, 108>>>>, notAfter |-> <<>>, wordEnd |-> FALSE],  \* news ?7 tamil  as "news7 tamil"
       [parts |-> <<<<106, 97, 121, 97>>>>, notAfter |-> <<>>, wordEnd |-> FALSE],  \* jaya
       [parts |-> <<<<118, 97, 115, 97, 110, 116, 104>>>>, notAfter |-> <<>>, wordEnd |-> FALSE],  \* vasanth
       [parts |-> <<<<109, 97, 107, 107, 97, 108>>>>, notAfter |-> <<>>, wordEnd |-> FALSE],  \* makkal
       [parts |-> <<<<99, 97, 112, 116, 97, 105, 110>>>>, notAfter |-> <<>>, wordEnd |-> FALSE],  \* captain
       [parts |-> <<<<97, 97, 115, 101, 101, 114, 118, 97, 116, 104, 97, 109>>>>, notAfter |-> <<>>, wordEnd |-> FALSE],  \* aaseervatham
       [parts |-> <<<<100, 100, 32, 116, 97, 109, 105, 108>>>>, notAfter |-> <<>>, wordEnd |-> FALSE],  \* dd tamil
       [parts |-> <<<<116, 97, 109, 105, 108, 97, 110>>>>, notAfter |-> <<>>, wordEnd |-> FALSE],  \* tamilan
       [parts |-> <<<<98, 108, 101, 115, 115, 105, 110, 103>>, <<116, 97, 109, 105, 108>>>>, notAfter |-> <<>>, wordEnd |-> FALSE],  \* blessing.*tamil
       [parts |-> <<<<110, 97, 97, 112, 116, 111, 108>>, <<116, 97, 109, 105, 108>>>>, notAfter |-> <<>>, wordEnd |-> FALSE],  \* naaptol.*tamil
       [parts |-> <<<<97, 97, 115, 116, 104, 97>>, <<116, 97, 109, 105, 108>>>>, notAfter |-> <<>>, wordEnd |-> FALSE]  \* aastha.*tamil
     >>],
    [language |-> <<116, 101, 108, 117, 103, 117>>,  \* telugu
     alts |-> <<
       [parts |-> <<<<116, 101, 108, 117, 103, 117>>>>, notAfter |-> <<>>, wordEnd |-> FALSE],  \* telugu
       [parts |-> <<<<103, 101, 109, 105, 110, 105>>>>, notAfter |-> <<>>, wordEnd |-> FALSE],  \* gemini
       [parts |-> <<<<101, 116, 118>>>>, notAfter |-> <<>>, wordEnd |-> FALSE],  \* etv
       [parts |-> <<<<109, 97, 97>>>>, notAfter |-> <<>>, wordEnd |-> FALSE],  \* maa
       [parts |-> <<<<49, 48, 32, 116, 118>>>>, notAfter |-> <<>>, wordEnd |-> FALSE],  \* 10 ?tv  as "10 tv"
       [parts |-> <<<<49, 48, 116, 118>>>>, notAfter |-> <<>>, wordEnd |-> FALSE],  \* 10 ?tv  as "10tv"
       [parts |-> <<<<54, 32, 116, 118>>>>, notAfter |-> <<>>, wordEnd |-> FALSE],  \* 6 ?tv  as "6 tv"
       [parts |-> <<<<54, 116, 118>>>>, notAfter |-> <<>>, wordEnd |-> FALSE],  \* 6 ?tv  as "6tv"
       [parts |-> <<<<52, 32, 116, 118>>>>, notAfter |-> <<>>, wordEnd |-> FALSE],  \* 4 ?tv  as "4 tv"
       [parts |-> <<<<52, 116, 118>>>>, notAfter |-> <<>>, wordEnd |-> FALSE],  \* 4 ?tv  as "4tv"
       [parts |-> <<<<110, 116, 118>>>>, notAfter |-> <<>>, wordEnd |-> FALSE],  \* ntv
       [parts |-> <<<<118, 54>>>>, notAfter |-> <<>>, wordEnd |-> FALSE],  \* v6
       [parts |-> <<<<97, 98, 110>>>>, notAfter |-> <<>>, wordEnd |-> FALSE],  \* abn
       [parts |-> <<<<115, 97, 107, 115, 104, 105>>>>, notAfter |-> <<>>, wordEnd |-> FALSE],  \* sakshi
       [parts |-> <<<<116, 32, 110, 101, 119, 115>>>>, notAfter |-> <<>>, wordEnd |-> FALSE],  \* t ?news  as "t news"
       [parts |-> <<<<116, 110, 101, 119, 115>>>>, notAfter |-> <<>>, wordEnd |-> FALSE],  \* t ?news  as "tnews"
       [parts |-> <<<<118, 97, 110, 105, 116, 104, 97>>>>, notAfter |-> <<>>, wordEnd |-> FALSE],  \* vanitha
       [parts |-> <<<<122, 101, 101, 32, 116, 101, 108, 117, 103, 117>>>>, notAfter |-> <<>>, wordEnd |-> FALSE],  \* zee telugu
       [parts |-> <<<<115, 116, 97, 114, 32, 109, 97, 97>>>>, notAfter |-> <<>>, wordEnd |-> FALSE],  \* star maa
       [parts |-> <<<<97, 97, 115, 116, 104, 97>>, <<116, 101, 108, 117, 103, 117>>>>, notAfter |-> <<>>, wordEnd |-> FALSE]  \* aastha.*telugu
     >>],
    [language |-> <<107, 97, 110, 110, 97, 100, 97>>,  \* kannada
     alts |-> <<
       [parts |-> <<<<107, 97, 110, 110, 97, 100, 97>>>>, notAfter |-> <<>>, wordEnd |-> FALSE],  \* kannada
       [parts |-> <<<<117, 100, 97, 121, 97>>>>, notAfter |-> <<>>, wordEnd |-> FALSE],  \* udaya
       [parts |-> <<<<115, 117, 118, 97, 114, 110, 97>>>>, notAfter |-> <<>>, wordEnd |-> FALSE],  \* suvarna
       [parts |-> <<<<122, 101, 101, 32, 107, 97, 110, 110, 97, 100, 97>>>>, notAfter |-> <<>>, wordEnd |-> FALSE],  \* zee kannada
       [parts |-> <<<<99, 111, 108, 111, 114, 115, 32, 107, 97, 110, 110, 97, 100, 97>>>>, notAfter |-> <<>>, wordEnd |-> FALSE],  \* colors kannada
       [parts |-> <<<<107, 97, 115, 116, 117, 114, 105>>>>, notAfter |-> <<>>, wordEnd |-> FALSE],  \* kasturi
       [parts |-> <<<<100, 100, 32, 99, 104, 97, 110, 100, 97, 110, 97>>>>, notAfter |-> <<>>, wordEnd |-> FALSE],  \* dd chandana
       [parts |-> <<<<112, 117, 98, 108, 105, 99>>, <<116, 118>>, <<107, 97, 110, 110, 97, 100, 97>>>>, notAfter |-> <<>>, wordEnd |-> FALSE],  \* public.*tv.*kannada
       [parts |-> <<<<114, 97, 106>>, <<110, 101, 119, 115>>, <<107, 97, 110, 110, 97, 100, 97>>>>, notAfter |-> <<>>, wordEnd |-> FALSE],  \* raj.*news.*kannada
       [parts |-> <<<<97, 97, 115, 116, 104, 97>>, <<107, 97, 110, 110, 97, 100, 97>>>>, notAfter |-> <<>>, wordEnd |-> FALSE]  \* aastha.*kannada
     >>],
    [language |-> <<109, 97, 108, 97, 121, 97, 108, 97, 109>>,  \* malayalam
     alts |-> <<
       [parts |-> <<<<109, 97, 108, 97, 121, 97, 108, 97, 109>>>>, notAfter |-> <<>>, wordEnd |-> FALSE],  \* malayalam
       [parts |-> <<<<97, 115, 105, 97, 110, 101, 116>>>>, notAfter |-> <<>>, wordEnd |-> FALSE],  \* asianet
       [parts |-> <<<<109, 97, 122, 104, 97, 118, 105, 108>>>>, notAfter |-> <<>>, wordEnd |-> FALSE],  \* mazhavil
       [parts |-> <<<<115, 117, 114, 121, 97>>>>, notAfter |-> <<>>, wordEnd |-> FALSE],  \* surya
       [parts |-> <<<<107, 97, 105, 114, 97, 108, 105>>>>, notAfter |-> <<>>, wordEnd |-> FALSE],  \* kairali
       [parts |-> <<<<109, 97, 110, 111, 114, 97, 109, 97>>>>, notAfter |-> <<>>, wordEnd |-> FALSE],  \* manorama
       [parts |-> <<<<97, 109, 114, 105, 116, 97>>>>, notAfter |-> <<>>, wordEnd |-> FALSE],  \* amrita
       [parts |-> <<<<106, 97, 105, 104, 105, 110, 100>>>>, notAfter |-> <<>>, wordEnd |-> FALSE],  \* jaihind
       [parts |-> <<<<109, 101, 100, 105, 97, 32, 111, 110, 101>>>>, notAfter |-> <<>>, wordEnd |-> FALSE],  \* media ?one  as "media one"
       [parts |-> <<<<109, 101, 100, 105, 97, 111, 110, 101>>>>, notAfter |-> <<>>, wordEnd |-> FALSE],  \* media ?one  as "mediaone"
       [parts |-> <<<<109, 97, 116, 104, 114, 117, 98, 104, 117, 109, 105>>>>, notAfter |-> <<>>, wordEnd |-> FALSE],  \* mathrubhumi
       [parts |-> <<<<115, 97, 102, 97, 114, 105>>>>, notAfter |-> <<>>, wordEnd |-> FALSE],  \* safari
       [parts |-> <<<<102, 108, 111, 119, 101, 114, 115>>>>, notAfter |-> <<>>, wordEnd |-> FALSE],  \* flowers
       [parts |-> <<<<107, 97, 117, 109, 117, 100, 121>>>>, notAfter |-> <<>>, wordEnd |-> FALSE],  \* kaumudy
       [parts |-> <<<<122, 101, 101, 32, 107, 101, 114, 97, 108, 97, 109>>>>, notAfter |-> <<>>, wordEnd |-> FALSE],  \* zee keralam
       [parts |-> <<<<106, 101, 101, 118, 97, 110>>>>, notAfter |-> <<>>, wordEnd |-> FALSE]  \* jeevan
     >>],
    [language |-> <<104, 105, 110, 100, 105>>,  \* hindi
     alts |-> <<
       [parts |-> <<<<104, 105, 110, 100, 105>>>>, notAfter |-> <<>>, wordEnd |-> FALSE],  \* hindi
       [parts |-> <<<<122, 101, 101>>>>, notAfter |-> <<<<116, 97, 109, 105, 108>>, <<116, 101, 108, 117, 103, 117>>, <<107, 97, 110, 110, 97, 100, 97>>, <<109, 97, 108, 97, 121, 97, 108, 97, 109>>, <<98, 101, 110, 103, 97, 108, 105>>, <<109, 97, 114, 97, 116, 104, 105>>, <<112, 117, 110, 106, 97, 98, 105>>, <<103, 117, 106, 97, 114, 97, 116, 105>>>>, wordEnd |-> FALSE],  \* zee(?!.*tamil|.*telugu|...)
       [parts |-> <<<<115, 116, 97, 114, 32, 112, 108, 117, 115>>>>, notAfter |-> <<>>, wordEnd |-> FALSE],  \* star plus
       [parts |-> <<<<115, 111, 110, 121>>>>, notAfter |-> <<>>, wordEnd |-> FALSE],  \* sony
       [parts |-> <<<<99, 111, 108, 111, 114, 115>>>>, notAfter |-> <<>>, wordEnd |-> FALSE],  \* colors
       [parts |-> <<<<38, 116, 118>>>>, notAfter |-> <<>>, wordEnd |-> FALSE],  \* &tv
       [parts |-> <<<<115, 97, 98, 32, 116, 118>>>>, notAfter |-> <<>>, wordEnd |-> FALSE],  \* sab tv
       [parts |-> <<<<114, 105, 115, 104, 116, 101, 121>>>>, notAfter |-> <<>>, wordEnd |-> FALSE],  \* rishtey
       [parts |-> <<<<100, 97, 110, 103, 97, 108>>>>, notAfter |-> <<>>, wordEnd |-> FALSE],  \* dangal
       [parts |-> <<<<97, 97, 106, 32, 116, 97, 107>>>>, notAfter |-> <<>>, wordEnd |-> FALSE],  \* aaj tak
       [parts |-> <<<<97, 98, 112, 32, 110, 101, 119, 115>>>>, notAfter |-> <<>>, wordEnd |-> FALSE],  \* abp news
       [parts |-> <<<<110, 100, 116, 118>>>>, notAfter |-> <<>>, wordEnd |-> FALSE],  \* ndtv
       [parts |-> <<<<105, 110, 100, 105, 97, 32, 116, 118>>>>, notAfter |-> <<>>, wordEnd |-> FALSE],  \* india tv
       [parts |-> <<<<110, 101, 119, 115, 49, 56>>>>, notAfter |-> <<>>, wordEnd |-> FALSE],  \* news18
       [parts |-> <<<<114, 101, 112, 117, 98, 108, 105, 99>>>>, notAfter |-> <<>>, wordEnd |-> FALSE],  \* republic
       [parts |-> <<<<116, 105, 109, 101, 115, 32, 110, 111, 119>>>>, notAfter |-> <<>>, wordEnd |-> FALSE],  \* times now
       [parts |-> <<<<105, 110, 100, 105, 97, 32, 116, 111, 100, 97, 121>>>>, notAfter |-> <<>>, wordEnd |-> FALSE],  \* india today
       [parts |-> <<<<100, 100, 32, 105, 110, 100, 105, 97>>>>, notAfter |-> <<>>, wordEnd |-> FALSE],  \* dd india
       [parts |-> <<<<100, 100, 32, 110, 97, 116, 105, 111, 110, 97, 108>>>>, notAfter |-> <<>>, wordEnd |-> FALSE],  \* dd national
       [parts |-> <<<<100, 100, 32, 98, 104, 97, 114, 97, 116, 105>>>>, notAfter |-> <<>>, wordEnd |-> FALSE],  \* dd bharati
       [parts |-> <<<<110, 101, 119, 115, 32, 50, 52>>>>, notAfter |-> <<>>, wordEnd |-> FALSE],  \* news ?24  as "news 24"
       [parts |-> <<<<110, 101, 119, 115, 50, 52>>>>, notAfter |-> <<>>, wordEnd |-> FALSE],  \* news ?24  as "news24"
       [parts |-> <<<<101, 112, 105, 99>>>>, notAfter |-> <<>>, wordEnd |-> FALSE],  \* epic
       [parts |-> <<<<98, 105, 103, 32, 109, 97, 103, 105, 99>>>>, notAfter |-> <<>>, wordEnd |-> FALSE],  \* big magic
       [parts |-> <<<<122, 105, 110, 103>>>>, notAfter |-> <<>>, wordEnd |-> FALSE],  \* zing
       [parts |-> <<<<100, 100, 32, 114, 97, 106, 97, 115, 116, 104, 97, 110>>>>, notAfter |-> <<>>, wordEnd |-> FALSE],  \* dd rajasthan
       [parts |-> <<<<100, 100, 32, 117, 116, 116, 97, 114>>>>, notAfter |-> <<>>, wordEnd |-> FALSE],  \* dd uttar
       [parts |-> <<<<100, 100, 32, 109, 97, 100, 104, 121, 97>>>>, notAfter |-> <<>>, wordEnd |-> FALSE],  \* dd madhya
       [parts |-> <<<<100, 100, 32, 98, 105, 104, 97, 114>>>>, notAfter |-> <<>>, wordEnd |-> FALSE],  \* dd bihar
       [parts |-> <<<<100, 100, 32, 106, 104, 97, 114, 107, 104, 97, 110, 100>>>>, notAfter |-> <<>>, wordEnd |-> FALSE],  \* dd jharkhand
       [parts |-> <<<<100, 100, 32, 100, 101, 108, 104, 105>>>>, notAfter |-> <<>>, wordEnd |-> FALSE],  \* dd delhi
       [parts |-> <<<<100, 104, 97, 107, 97, 100>>>>, notAfter |-> <<>>, wordEnd |-> FALSE],  \* dhakad
       [parts |-> <<<<97, 97, 115, 116, 104, 97>>>>, notAfter |-> <<>>, wordEnd |-> FALSE],  \* aastha
       [parts |-> <<<<115, 97, 110, 115, 107, 97, 114>>>>, notAfter |-> <<>>, wordEnd |-> FALSE],  \* sanskar
       [parts |-> <<<<105, 115, 104, 97, 114, 97>>>>, notAfter |-> <<>>, wordEnd |-> FALSE],  \* ishara
       [parts |-> <<<<109, 97, 110, 111, 114, 97, 110, 106, 97, 110>>>>, notAfter |-> <<>>, wordEnd |-> FALSE],  \* manoranjan
       [parts |-> <<<<57, 120>>, <<106, 97, 108, 119, 97>>>>, notAfter |-> <<>>, wordEnd |-> FALSE],  \* 9x.*jalwa  (of 9x.*(?:jalwa|jhakaas|m\b))
       [parts |-> <<<<57, 120>>, <<106, 104, 97, 107, 97, 97, 115>>>>, notAfter |-> <<>>, wordEnd |-> FALSE],  \* 9x.*jhakaas  (of 9x.*(?:jalwa|jhakaas|m\b))
       [parts |-> <<<<57, 120>>, <<109>>>>, notAfter |-> <<>>, wordEnd |-> TRUE],  \* 9x.*m\b  (of 9x.*(?:jalwa|jhakaas|m\b))
       [parts |-> <<<<109, 117, 115, 105, 99, 32, 105, 110, 100, 105, 97>>>>, notAfter |-> <<>>, wordEnd |-> FALSE]  \* music india
     >>],
    [language |-> <<109, 97, 114, 97, 116, 104, 105>>,  \* marathi
     alts |-> <<
       [parts |-> <<<<109, 97, 114, 97, 116, 104, 105>>>>, notAfter |-> <<>>, wordEnd |-> FALSE],  \* marathi
       [parts |-> <<<<122, 101, 101, 32, 109, 97, 114, 97, 116, 104, 105>>>>, notAfter |-> <<>>, wordEnd |-> FALSE],  \* zee marathi
       [parts |-> <<<<115, 116, 97, 114, 32, 112, 114, 97, 118, 97, 104>>>>, notAfter |-> <<>>, wordEnd |-> FALSE],  \* star pravah
       [parts |-> <<<<99, 111, 108, 111, 114, 115, 32, 109, 97, 114, 97, 116, 104, 105>>>>, notAfter |-> <<>>, wordEnd |-> FALSE],  \* colors marathi
       [parts |-> <<<<102, 97, 107, 116, 32, 109, 97, 114, 97, 116, 104, 105>>>>, notAfter |-> <<>>, wordEnd |-> FALSE]  \* fakt marathi
     >>],
    [language |-> <<98, 101, 110, 103, 97, 108, 105>>,  \* bengali
     alts |-> <<
       [parts |-> <<<<98, 101, 110, 103, 97, 108, 105>>>>, notAfter |-> <<>>, wordEnd |-> FALSE],  \* bengali
       [parts |-> <<<<98, 97, 110, 103, 108, 97>>>>, notAfter |-> <<>>, wordEnd |-> FALSE],  \* bangla
       [parts |-> <<<<106, 97, 108, 115, 104, 97>>>>, notAfter |-> <<>>, wordEnd |-> FALSE],  \* jalsha
       [parts |-> <<<<122, 101, 101, 32, 98, 97, 110, 103, 108, 97>>>>, notAfter |-> <<>>, wordEnd |-> FALSE],  \* zee bangla
       [parts |-> <<<<99, 111, 108, 111, 114, 115, 32, 98, 97, 110, 103, 108, 97>>>>, notAfter |-> <<>>, wordEnd |-> FALSE],  \* colors bangla
       [parts |-> <<<<97, 97, 107, 97, 97, 115, 104>>>>, notAfter |-> <<>>, wordEnd |-> FALSE],  \* aakaash
       [parts |-> <<<<97, 109, 97, 114>>, <<98, 97, 110, 103, 108, 97>>>>, notAfter |-> <<>>, wordEnd |-> FALSE],  \* amar.*bangla
       [parts |-> <<<<99, 97, 108, 99, 117, 116, 116, 97>>>>, notAfter |-> <<>>, wordEnd |-> FALSE],  \* calcutta
       [parts |-> <<<<97, 107, 100>>>>, notAfter |-> <<>>, wordEnd |-> FALSE],  \* akd
       [parts |-> <<<<97, 110, 97, 110, 100, 97>>>>, notAfter |-> <<>>, wordEnd |-> FALSE]  \* ananda
     >>],
    [language |-> <<112, 117, 110, 106, 97, 98, 105>>,  \* punjabi
     alts |-> <<
       [parts |-> <<<<112, 117, 110, 106, 97, 98>>>>, notAfter |-> <<>>, wordEnd |-> FALSE],  \* punjab
       [parts |-> <<<<112, 116, 99>>>>, notAfter |-> <<>>, wordEnd |-> FALSE],  \* ptc
       [parts |-> <<<<109, 104, 49>>>>, notAfter |-> <<>>, wordEnd |-> FALSE],  \* mh1
       [parts |-> <<<<122, 101, 101, 32, 112, 117, 110, 106, 97, 98, 105>>>>, notAfter |-> <<>>, wordEnd |-> FALSE],  \* zee punjabi
       [parts |-> <<<<57, 120, 32, 116, 97, 115, 104, 97, 110>>>>, notAfter |-> <<>>, wordEnd |-> FALSE]  \* 9x tashan
     >>],
    [language |-> <<103, 117, 106, 97, 114, 97, 116, 105>>,  \* gujarati
     alts |-> <<
       [parts |-> <<<<103, 117, 106, 97, 114, 97, 116, 105>>>>, notAfter |-> <<>>, wordEnd |-> FALSE],  \* gujarati
       [parts |-> <<<<115, 97, 110, 100, 101, 115, 104>>>>, notAfter |-> <<>>, wordEnd |-> FALSE],  \* sandesh
       [parts |-> <<<<116, 118, 57, 32, 103, 117, 106, 97, 114, 97, 116, 105>>>>, notAfter |-> <<>>, wordEnd |-> FALSE],  \* tv9 gujarati
       [parts |-> <<<<97, 98, 112, 32, 97, 115, 109, 105, 116, 97>>>>, notAfter |-> <<>>, wordEnd |-> FALSE],  \* abp asmita
       [parts |-> <<<<122, 101, 101, 32, 50, 52, 32, 107, 97, 108, 97, 107>>>>, notAfter |-> <<>>, wordEnd |-> FALSE],  \* zee 24 kalak
       [parts |-> <<<<99, 111, 108, 111, 114, 115, 32, 103, 117, 106, 97, 114, 97, 116, 105>>>>, notAfter |-> <<>>, wordEnd |-> FALSE]  \* colors gujarati
     >>],
    [language |-> <<117, 114, 100, 117>>,  \* urdu
     alts |-> <<
       [parts |-> <<<<117, 114, 100, 117>>>>, notAfter |-> <<>>, wordEnd |-> FALSE],  \* urdu
       [parts |-> <<<<115, 97, 108, 97, 97, 109>>>>, notAfter |-> <<>>, wordEnd |-> FALSE]  \* salaam
     >>],
    [language |-> <<98, 104, 111, 106, 112, 117, 114, 105>>,  \* bhojpuri
     alts |-> <<
       [parts |-> <<<<98, 104, 111, 106, 112, 117, 114, 105>>>>, notAfter |-> <<>>, wordEnd |-> FALSE],  \* bhojpuri
       [parts |-> <<<<98, 52, 117, 32, 98, 104, 111, 106, 112, 117, 114, 105>>>>, notAfter |-> <<>>, wordEnd |-> FALSE]  \* b4u bhojpuri
     >>],
    [language |-> <<97, 115, 115, 97, 109, 101, 115, 101>>,  \* assamese
     alts |-> <<
       [parts |-> <<<<97, 115, 115, 97, 109>>>>, notAfter |-> <<>>, wordEnd |-> FALSE],  \* assam
       [parts |-> <<<<112, 114, 97, 116, 105, 100, 105, 110>>>>, notAfter |-> <<>>, wordEnd |-> FALSE],  \* pratidin
       [parts |-> <<<<110, 101, 119, 115>>, <<108, 105, 118, 101>>, <<97, 115, 115, 97, 109>>>>, notAfter |-> <<>>, wordEnd |-> FALSE],  \* news.*live.*assam
       [parts |-> <<<<112, 114, 97, 103>>>>, notAfter |-> <<>>, wordEnd |-> FALSE]  \* prag
     >>],
    [language |-> <<111, 100, 105, 97>>,  \* odia
     alts |-> <<
       [parts |-> <<<<111, 100, 105, 97>>>>, notAfter |-> <<>>, wordEnd |-> FALSE],  \* odia
       [parts |-> <<<<111, 114, 105, 121, 97>>>>, notAfter |-> <<>>, wordEnd |-> FALSE],  \* oriya
       [parts |-> <<<<97, 108, 97, 110, 107, 97, 114>>>>, notAfter |-> <<>>, wordEnd |-> FALSE],  \* alankar
       [parts |-> <<<<109, 98, 99>>>>, notAfter |-> <<>>, wordEnd |-> FALSE]  \* mbc
     >>],
    [language |-> <<101, 110, 103, 108, 105, 115, 104>>,  \* english
     alts |-> <<
       [parts |-> <<<<100, 105, 115, 99, 111, 118, 101, 114, 121>>>>, notAfter |-> <<>>, wordEnd |-> FALSE],  \* discovery
       [parts |-> <<<<110, 97, 116, 105, 111, 110, 97, 108, 32, 103, 101, 111, 103, 114, 97, 112, 104, 105, 99>>>>, notAfter |-> <<>>, wordEnd |-> FALSE],  \* national geographic
       [parts |-> <<<<110, 97, 116, 32, 103, 101, 111>>>>, notAfter |-> <<>>, wordEnd |-> FALSE],  \* nat geo
       [parts |-> <<<<97, 110, 105, 109, 97, 108, 32, 112, 108, 97, 110, 101, 116>>>>, notAfter |-> <<>>, wordEnd |-> FALSE],  \* animal planet
       [parts |-> <<<<98, 98, 99>>>>, notAfter |-> <<>>, wordEnd |-> FALSE],  \* bbc
       [parts |-> <<<<99, 110, 110>>>>, notAfter |-> <<>>, wordEnd |-> FALSE],  \* cnn
       [parts |-> <<<<102, 111, 120>>>>, notAfter |-> <<>>, wordEnd |-> FALSE],  \* fox
       [parts |-> <<<<104, 105, 115, 116, 111, 114, 121>>>>, notAfter |-> <<>>, wordEnd |-> FALSE],  \* history
       [parts |-> <<<<115, 111, 110, 121, 32, 112, 105, 120>>>>, notAfter |-> <<>>, wordEnd |-> FALSE],  \* sony pix
       [parts |-> <<<<38, 102, 108, 105, 120>>>>, notAfter |-> <<>>, wordEnd |-> FALSE],  \* &flix
       [parts |-> <<<<38, 112, 114, 105, 118, 101>>>>, notAfter |-> <<>>, wordEnd |-> FALSE],  \* &prive
       [parts |-> <<<<109, 111, 118, 105, 101, 115, 32, 110, 111, 119>>>>, notAfter |-> <<>>, wordEnd |-> FALSE],  \* movies now
       [parts |-> <<<<114, 111, 109, 101, 100, 121>>>>, notAfter |-> <<>>, wordEnd |-> FALSE],  \* romedy
       [parts |-> <<<<109, 116, 118>>>>, notAfter |-> <<>>, wordEnd |-> FALSE],  \* mtv
       [parts |-> <<<<118, 104, 49>>>>, notAfter |-> <<>>, wordEnd |-> FALSE],  \* vh1
       [parts |-> <<<<99, 111, 109, 101, 100, 121, 32, 99, 101, 110, 116, 114, 97, 108>>>>, notAfter |-> <<>>, wordEnd |-> FALSE],  \* comedy central
       [parts |-> <<<<110, 105, 99, 107>>>>, notAfter |-> <<>>, wordEnd |-> FALSE],  \* nick
       [parts |-> <<<<99, 97, 114, 116, 111, 111, 110>>>>, notAfter |-> <<>>, wordEnd |-> FALSE],  \* cartoon
       [parts |-> <<<<112, 111, 103, 111>>>>, notAfter |-> <<>>, wordEnd |-> FALSE],  \* pogo
       [parts |-> <<<<100, 105, 115, 110, 101, 121>>>>, notAfter |-> <<>>, wordEnd |-> FALSE],  \* disney
       [parts |-> <<<<104, 117, 110, 103, 97, 109, 97>>>>, notAfter |-> <<>>, wordEnd |-> FALSE],  \* hungama
       [parts |-> <<<<115, 111, 110, 121, 32, 121, 97, 121>>>>, notAfter |-> <<>>, wordEnd |-> FALSE],  \* sony yay
       [parts |-> <<<<116, 114, 97, 118, 101, 108, 32, 120, 112>>>>, notAfter |-> <<>>, wordEnd |-> FALSE],  \* travel xp
       [parts |-> <<<<102, 97, 115, 104, 105, 111, 110>>>>, notAfter |-> <<>>, wordEnd |-> FALSE],  \* fashion
       [parts |-> <<<<102, 111, 111, 100>>>>, notAfter |-> <<>>, wordEnd |-> FALSE],  \* food
       [parts |-> <<<<116, 108, 99>>>>, notAfter |-> <<>>, wordEnd |-> FALSE],  \* tlc
       [parts |-> <<<<108, 105, 118, 105, 110, 103>>>>, notAfter |-> <<>>, wordEnd |-> FALSE],  \* living
       [parts |-> <<<<101, 115, 112, 110>>>>, notAfter |-> <<>>, wordEnd |-> FALSE],  \* espn
       [parts |-> <<<<115, 116, 97, 114, 32, 115, 112, 111, 114, 116, 115>>>>, notAfter |-> <<>>, wordEnd |-> FALSE],  \* star sports
       [parts |-> <<<<115, 111, 110, 121>>, <<115, 112, 111, 114, 116, 115>>>>, notAfter |-> <<>>, wordEnd |-> FALSE],  \* sony.*sports
       [parts |-> <<<<101, 117, 114, 111, 115, 112, 111, 114, 116>>>>, notAfter |-> <<>>, wordEnd |-> FALSE],  \* eurosport
       [parts |-> <<<<100, 100, 32, 115, 112, 111, 114, 116, 115>>>>, notAfter |-> <<>>, wordEnd |-> FALSE],  \* dd sports
       [parts |-> <<<<109, 105, 114, 114, 111, 114, 32, 110, 111, 119>>>>, notAfter |-> <<>>, wordEnd |-> FALSE],  \* mirror now
       [parts |-> <<<<119, 105, 111, 110>>>>, notAfter |-> <<>>, wordEnd |-> FALSE],  \* wion
       [parts |-> <<<<122, 111, 111, 109>>>>, notAfter |-> <<>>, wordEnd |-> FALSE]  \* zoom
     >>]
  >>

\* The generic broadcast terms of /tv|channel|news|bharat|india|desi/.
genericTerms ==
  <<
    <<116, 118>>,  \* "tv"
    <<99, 104, 97, 110, 110, 101, 108>>,  \* "channel"
    <<110, 101, 119, 115>>,  \* "news"
    <<98, 104, 97, 114, 97, 116>>,  \* "bharat"
    <<105, 110, 100, 105, 97>>,  \* "india"
    <<100, 101, 115, 105>>  \* "desi"
  >>

\* FRANC_TO_LANGUAGE_NAME: franc's ISO 639-3 answer -> full language name;
\* 'und' maps to null and a code outside the table to undefined.
FRANC_TO_LANGUAGE_NAME(code) ==
  CASE code = "tam" -> sTamil
    [] code = "tel" -> <<116, 101, 108, 117, 103, 117>>                \* telugu
    [] code = "hin" -> sHindi
    [] code = "kan" -> <<107, 97, 110, 110, 97, 100, 97>>              \* kannada
    [] code = "mal" -> <<109, 97, 108, 97, 121, 97, 108, 97, 109>>     \* malayalam
    [] code = "eng" -> sEnglish
    [] code = "ben" -> <<98, 101, 110, 103, 97, 108, 105>>             \* bengali
    [] code = "mar" -> <<109, 97, 114, 97, 116, 104, 105>>             \* marathi
    [] code = "pan" -> <<112, 117, 110, 106, 97, 98, 105>>             \* punjabi
    [] code = "guj" -> <<103, 117, 106, 97, 114, 97, 116, 105>>        \* gujarati
    [] code = "urd" -> <<117, 114, 100, 117>>                          \* urdu
    [] code = "asm" -> <<97, 115, 115, 97, 109, 101, 115, 101>>        \* assamese
    [] code = "ori" -> <<111, 100, 105, 97>>                           \* odia
    [] code = "bho" -> <<98, 104, 111, 106, 112, 117, 114, 105>>       \* bhojpuri
    [] code = "und" -> Null
    [] OTHER -> Undefined

\* The supported ISO 639-1 codes: the values of LANGUAGE_CODES but 'unknown'.
SupportedCodes ==
  {LANGUAGE_CODES[i].code : i \in 1..Len(LANGUAGE_CODES)} \ {sUnknown}

\* The element of the smallest index in a non-empty set of indices.
MinOf(S) == CHOOSE i \in S : \A j \in S : i <= j

\* ------------------------------------------------------------------------
\* extractDomain
\* ------------------------------------------------------------------------

\* The groups after the first label of one letter or more (a variant of
\* DomainRegexTest).
DomainRegexTestOneLetter(d) ==
  \E n \in 1..Len(d) :
    /\ IsLetter(d[1]) \/ IsDigit(d[1])
    /\ IsLetter(d[n]) \/ IsDigit(d[n])
    /\ \A i \in 1..n : IsLetter(d[i]) \/ IsDigit(d[i]) \/ d[i] = 45
    /\ Len(d) >= n + 2
    /\ d[n + 1] = 46
    /\ \A i \in (n + 1)..Len(d) :
         \/ IsLetter(d[i])
         \/ /\ d[i] = 46
            /\ i + 1 <= Len(d)
            /\ IsLetter(d[i + 1])

\* /^[a-zA-Z0-9]([a-zA-Z0-9-]*[a-zA-Z0-9])?(\.[a-zA-Z]{2,})+$/.test(d):
\* a first label of n characters, then one or more groups of a dot and two or
\* more letters, up to the end of the string.
DomainRegexTest(d) ==
  \E n \in 1..Len(d) :
    /\ IsLetter(d[1]) \/ IsDigit(d[1])
    /\ IsLetter(d[n]) \/ IsDigit(d[n])
    /\ \A i \in 1..n : IsLetter(d[i]) \/ IsDigit(d[i]) \/ d[i] = 45
    /\ Len(d) >= n + 3
    /\ d[n + 1] = 46
    /\ \A i \in (n + 1)..Len(d) :
         \/ IsLetter(d[i])
         \/ /\ d[i] = 46
            /\ i + 2 <= Len(d)
            /\ IsLetter(d[i + 1])
            /\ IsLetter(d[i + 2])

\* tvgId.split('@')[0]
BeforeFirstAt(s) ==
  LET at == IndexOfChar(s, 64)
  IN IF at = 0 THEN s ELSE SubSeq(s, 1, at - 1)

extractDomain(tvgId) ==
  IF ~Truthy(tvgId) THEN Null
  ELSE LET domain == trim(BeforeFirstAt(tvgId))
       IN IF Len(domain) > 0 /\ DomainRegexTest(domain) THEN domain ELSE Null

\* ------------------------------------------------------------------------
\* Pattern matcher
\* ------------------------------------------------------------------------

\* The language of the first of the rows of an ordered pattern table that
\* matched, null when none did (for ... of Object.entries, return at the
\* first match).
FirstMatch(table, hits) ==
  IF hits = {} THEN Null ELSE table[MinOf(hits)].language

detectExplicitLanguageInName(channelName) ==
  LET name == toLowerCase(channelName)
      hits == {i \in 1..Len(explicitPatterns) :
                 \E k \in 1..Len(explicitPatterns[i].words) :
                   ContainsWord(name, explicitPatterns[i].words[k])}
  IN FirstMatch(explicitPatterns, hits)

\* No line terminator in s[from..to-1]: what ".*" can span.
DotStarSpans(s, from, to) == \A m \in from..(to - 1) : s[m] \notin {10, 13, 8232, 8233}

\* The positions right after a match of parts[1] .* parts[2] .* ... parts[k].
RECURSIVE EndsOf(_, _, _)
EndsOf(s, parts, k) ==
  IF k = 1
  THEN {i + Len(parts[1]) : i \in {j \in 1..(Len(s) + 1) : LitAt(s, j, parts[1])}}
  ELSE LET prev == EndsOf(s, parts, k - 1)
       IN {i + Len(parts[k]) :
             i \in {j \in 1..(Len(s) + 1) :
                      /\ LitAt(s, j, parts[k])
                      /\ \E e \in prev : e <= j /\ DotStarSpans(s, e, j)}}

\* One alternative of a LANGUAGE_PATTERNS expression matches somewhere in s.
AltMatches(s, alt) ==
  \E e \in EndsOf(s, alt.parts, Len(alt.parts)) :
    /\ alt.wordEnd => WordBoundaryAt(s, e)
    /\ ~\E n \in 1..Len(alt.notAfter) :
          \E j \in e..(Len(s) + 1) :
            LitAt(s, j, alt.notAfter[n]) /\ DotStarSpans(s, e, j)

\* The matcher returning at the last matching row (a variant of
\* detectLanguageByPattern).
detectLanguageByPatternLastMatch(channelName) ==
  LET name == toLowerCase(channelName)
      hits == {i \in 1..Len(LANGUAGE_PATTERNS) :
                 \E k \in 1..Len(LANGUAGE_PATTERNS[i].alts) :
                   AltMatches(name, LANGUAGE_PATTERNS[i].alts[k])}
  IN IF hits # {}
     THEN LANGUAGE_PATTERNS[CHOOSE i \in hits : \A j \in hits : j <= i].language
     ELSE IF \E k \in 1..Len(genericTerms) : Contains(name, genericTerms[k])
          THEN sHindi
          ELSE sUnknown

\* The matcher without its defaults (a variant of detectLanguageByPattern).
detectLanguageByPatternNoDefault(channelName) ==
  LET name == toLowerCase(channelName)
      hits == {i \in 1..Len(LANGUAGE_PATTERNS) :
                 \E k \in 1..Len(LANGUAGE_PATTERNS[i].alts) :
                   AltMatches(name, LANGUAGE_PATTERNS[i].alts[k])}
  IN FirstMatch(LANGUAGE_PATTERNS, hits)

detectLanguageByPattern(channelName) ==
  LET name == toLowerCase(channelName)
      hits == {i \in 1..Len(LANGUAGE_PATTERNS) :
                 \E k \in 1..Len(LANGUAGE_PATTERNS[i].alts) :
                   AltMatches(name, LANGUAGE_PATTERNS[i].alts[k])}
      language == FirstMatch(LANGUAGE_PATTERNS, hits)
  IN IF language # Null THEN language
     ELSE IF \E k \in 1..Len(genericTerms) : Contains(name, genericTerms[k])
          THEN sHindi
          ELSE sUnknown

\* ------------------------------------------------------------------------
\* Language code normalisation and signal aggregation
\* ------------------------------------------------------------------------

\* The properties langMap inherits from Object.prototype under a lower-case
\* name (normalized is lower case): Object.prototype.constructor, the function
\* Object, and __proto__, the object Object.prototype; each with the property
\* key its value turns into when it is used as one.
ObjectPrototype ==
  << [name |-> <<99, 111, 110, 115, 116, 114, 117, 99, 116, 111, 114>>,   \* constructor
      key |-> <<102, 117, 110, 99, 116, 105, 111, 110, 32, 79, 98, 106, 101, 99, 116, 40,
                41, 32, 123, 32, 91, 110, 97, 116, 105, 118, 101, 32, 99, 111, 100, 101,
                93, 32, 125>>],                  \* "function Object() { [native code] }"
     [name |-> <<95, 95, 112, 114, 111, 116, 111, 95, 95>>,                \* __proto__
      key |-> <<91, 111, 98, 106, 101, 99, 116, 32, 79, 98, 106, 101, 99, 116, 93>>] >>
                                                 \* "[object Object]"

\* langMap[normalized] || null: the code of an own entry, the value of an
\* inherited property (<<-5, i>> is the object of row i of ObjectPrototype),
\* and null otherwise.
LangMapLookup(normalized) ==
  LET hits == {i \in 1..Len(langMap) : langMap[i].name = normalized}
      inherited == {i \in 1..Len(ObjectPrototype) : ObjectPrototype[i].name = normalized}
  IN IF hits # {} THEN langMap[MinOf(hits)].code
     ELSE IF inherited # {} THEN <<-5, MinOf(inherited)>>
     ELSE Null

normalizeLanguageCode(value) ==
  IF ~Truthy(value) THEN Null
  ELSE CHOOSE code \in
         { IF Len(normalized) = 2 /\ IsLower(normalized[1]) /\ IsLower(normalized[2])
           THEN normalized                                  \* /^[a-z]{2}$/
           ELSE IF /\ Len(normalized) >= 3
                   /\ IsLower(normalized[1])
                   /\ IsLower(normalized[2])
                   /\ normalized[3] \in {45, 95}
                THEN SubSeq(normalized, 1, 2)               \* /^([a-z]{2})[-_]/
                ELSE LangMapLookup(normalized) :
           normalized \in {trim(toLowerCase(value))} } : TRUE

\* scores[langCode]: the property key of a value that normalizeLanguageCode
\* returns, the value itself when it is a string.
PropertyKey(langCode) ==
  IF IsString(langCode) \/ langCode = Null THEN langCode
  ELSE ObjectPrototype[langCode[2]].key

\* scores[code]: the sum of the weights of the signals that normalize to code.
ScoreOf(signals, code) ==
  LET RECURSIVE Sum(_)
      Sum(k) == IF k = 0 THEN 0
                ELSE Sum(k - 1) + (IF PropertyKey(normalizeLanguageCode(signals[k].value)) = code
                                   THEN signals[k].weight ELSE 0)
  IN Sum(Len(signals))

\* entries[0] taken from a sort that puts the latest of the equal scores first
\* (a variant of aggregateLanguageSignals).
aggregateLanguageSignalsLastSeen(signals) ==
  LET key(k) == PropertyKey(normalizeLanguageCode(signals[k].value))
      valid == {k \in 1..Len(signals) : key(k) # Null}
      first == {k \in valid : \A j \in valid : j < k => key(j) # key(k)}
      score(k) == ScoreOf(signals, key(k))
      best == {k \in first : \A j \in first : score(j) <= score(k)}
  IN IF Len(signals) = 0 \/ valid = {} THEN Null
     ELSE key(CHOOSE k \in best : \A j \in best : j <= k)

\* The keys of scores in insertion order are the codes in the order of their
\* first signal; entries.sort((a, b) => b[1] - a[1]) is stable, so entries[0]
\* is the code of the highest score whose first signal comes first.
aggregateLanguageSignals(signals) ==
  LET key(k) == PropertyKey(normalizeLanguageCode(signals[k].value))
      valid == {k \in 1..Len(signals) : key(k) # Null}
      first == {k \in valid : \A j \in valid : j < k => key(j) # key(k)}
      score(k) == ScoreOf(signals, key(k))
      best == {k \in first : \A j \in first : score(j) <= score(k)}
  IN IF Len(signals) = 0 \/ valid = {} THEN Null
     ELSE key(MinOf(best))

\* ------------------------------------------------------------------------
\* Metadata analyzer
\* ------------------------------------------------------------------------

\* The patterns carry the i flag and hold ASCII letters only: a character of
\* the string matches a letter of a pattern in either case, and no character
\* beyond ASCII matches one (Canonicalize keeps it as it is).
\* (The string and its canonical form are bound so that each is evaluated
\* once.)
detectLanguageFromResources(resources) ==
  CHOOSE code \in
    { LET hits == {i \in 1..Len(resourcePatterns) :
                     \E k \in 1..Len(resourcePatterns[i].words) :
                        Contains(canonical, resourcePatterns[i].words[k])}
      IN IF hits = {} THEN Null ELSE resourcePatterns[MinOf(hits)].language :
      canonical \in { [i \in 1..Len(r) |-> IF IsUpper(r[i]) THEN r[i] + 32 ELSE r[i]] \o <<>> :
                      r \in {resources} } } : TRUE

\* /\b(n1|n2)\s+(language|channel|...)\b/ matches text: a name at a word
\* boundary, one or more white space characters, a keyword, a word boundary.
MentionMatches(text, row) ==
  \E n \in 1..Len(row.words) : \E i \in 1..Len(text) :
    /\ LitAt(text, i, row.words[n])
    /\ WordBoundaryAt(text, i)
    /\ \E j \in (i + Len(row.words[n]) + 1)..Len(text) :
         /\ \A m \in (i + Len(row.words[n]))..(j - 1) : IsWhiteSpace(text[m])
         /\ \E k \in 1..Len(mentionKeywords) :
              /\ LitAt(text, j, mentionKeywords[k])
              /\ WordBoundaryAt(text, j + Len(mentionKeywords[k]))

\* (text is bound so that description.toLowerCase() is evaluated once.)
detectLanguageFromDescription(description) ==
  IF ~Truthy(description) THEN Null
  ELSE CHOOSE language \in
         { FirstMatch(languageMentions,
                      {i \in 1..Len(languageMentions) :
                         MentionMatches(text, languageMentions[i])}) :
           text \in {toLowerCase(description)} } : TRUE

\* x || ''  and  x || null
OrEmpty(v) == IF Truthy(v) THEN v ELSE <<>>
OrNull(v) == IF Truthy(v) THEN v ELSE Null

\* A signal is pushed when its value is truthy.
PushIf(value, signal) == IF Truthy(value) THEN <<signal>> ELSE <<>>

\* Any signal counted as a strong one (a variant of hasStrongSignal).
hasAnySignal(signals) == Len(signals) > 0

\* signals.some(s => ['html-lang', ...].includes(s.source))
hasStrongSignal(signals) ==
  \E k \in 1..Len(signals) :
    signals[k].source \in {"html-lang", "meta-content-language", "og-locale", "meta-language"}

\* An HTML document is given by what cheerio and html-to-text extract from it
\* (both libraries are outside the repository): title is $('title').text(),
\* the attribute fields are .attr(...) results (Undefined when the element or
\* attribute is missing), scriptSrcs and linkHrefs the joined src and href
\* lists, bodyText the result of convert(html, ...), and franc the answer of
\* franc(cleanText, {minLength: 100}) for the cleaned body text.
detectLanguageFromMetadata(html) ==
  LET title == OrNull(trim(html.title))
      description == OrNull(html.description)
      ogDescription == OrNull(html.ogDescription)
      descriptionText == OrEmpty(description) \o <<32>> \o OrEmpty(ogDescription)
                           \o <<32>> \o OrEmpty(title)
      languageHint == detectLanguageFromDescription(descriptionText)
      resources == toLowerCase(html.scriptSrcs \o <<32>> \o html.linkHrefs)
      resourceLang == detectLanguageFromResources(resources)
      signals ==
        PushIf(languageHint, [source |-> "description-hint", value |-> languageHint, weight |-> 9])
        \o PushIf(html.htmlLang, [source |-> "html-lang", value |-> html.htmlLang, weight |-> 10])
        \o PushIf(html.metaLang,
                  [source |-> "meta-content-language", value |-> html.metaLang, weight |-> 8])
        \o PushIf(html.ogLocale, [source |-> "og-locale", value |-> html.ogLocale, weight |-> 7])
        \o PushIf(html.metaLangAttr,
                  [source |-> "meta-language", value |-> html.metaLangAttr, weight |-> 7])
        \o PushIf(resourceLang,
                  [source |-> "resource-analysis", value |-> resourceLang, weight |-> 3])
  IN [language |-> aggregateLanguageSignals(signals),
      confidence |-> IF hasStrongSignal(signals) THEN "high" ELSE "low",
      signals |-> signals]

\* ------------------------------------------------------------------------
\* Script / statistical analyzer
\* ------------------------------------------------------------------------

\* A confidence is the rational <<numerator, denominator>>.
ConfGE(a, b) == a[1] * b[2] >= b[1] * a[2]

\* The larger of two confidences (a variant of ConfMin).
ConfMax(a, b) == IF ConfGE(a, b) THEN a ELSE b

\* Math.min(a, b)
ConfMin(a, b) == IF ConfGE(a, b) THEN b ELSE a

\* The text taken as it is (a variant of CleanText).
CleanTextRaw(text) == text

\* text.replace(/\s+/g, ' ').trim()
CleanText(text) ==
  LET index == [i \in 1..Len(text) |-> i] \o <<>>
      Kept(i) == ~(IsWhiteSpace(text[i]) /\ i > 1 /\ IsWhiteSpace(text[i - 1]))
      kept == SelectSeq(index, Kept)
  IN trim([k \in 1..Len(kept) |-> IF IsWhiteSpace(text[kept[k]]) THEN 32 ELSE text[kept[k]]]
            \o <<>>)

\* (sample.match(/[lo-hi]/g) || []).length
CountRange(sample, lo, hi) ==
  Cardinality({i \in 1..Len(sample) : sample[i] >= lo /\ sample[i] <= hi})

\* The scripts object, in the order of its keys; the language is the entry of
\* scriptMap for the script.
ScriptCounts(sample) ==
  << [script |-> "tamil", language |-> sTamil, count |-> CountRange(sample, 2944, 3071)],
     [script |-> "telugu", language |-> <<116, 101, 108, 117, 103, 117>>,
      count |-> CountRange(sample, 3072, 3199)],
     [script |-> "kannada", language |-> <<107, 97, 110, 110, 97, 100, 97>>,
      count |-> CountRange(sample, 3200, 3327)],
     [script |-> "malayalam", language |-> <<109, 97, 108, 97, 121, 97, 108, 97, 109>>,
      count |-> CountRange(sample, 3328, 3455)],
     [script |-> "devanagari", language |-> sHindi, count |-> CountRange(sample, 2304, 2431)],
     [script |-> "bengali", language |-> <<98, 101, 110, 103, 97, 108, 105>>,
      count |-> CountRange(sample, 2432, 2559)],
     [script |-> "gujarati", language |-> <<103, 117, 106, 97, 114, 97, 116, 105>>,
      count |-> CountRange(sample, 2688, 2815)],
     [script |-> "punjabi", language |-> <<112, 117, 110, 106, 97, 98, 105>>,
      count |-> CountRange(sample, 2560, 2687)],
     [script |-> "latin", language |-> sEnglish,
      count |-> Cardinality({i \in 1..Len(sample) : IsLetter(sample[i])})] >>

\* Object.entries(scripts).reduce(...): the first script of the highest count,
\* {script: null, count: 0} when every count is 0.
MaxScript(scripts) ==
  LET best == {k \in 1..Len(scripts) :
                 /\ scripts[k].count > 0
                 /\ \A j \in 1..Len(scripts) : scripts[j].count <= scripts[k].count}
  IN IF best = {} THEN [script |-> "null", language |-> Undefined, count |-> 0]
     ELSE scripts[MinOf(best)]

\* francOut is the answer of franc(cleanText, {minLength: 100}).
analyzeTextLanguage(text, francOut) ==
  LET cleanText == CleanText(text)
      sample == SubSeq(cleanText, 1, IF Len(cleanText) < 5000 THEN Len(cleanText) ELSE 5000)
      totalChars == Len(sample)
      maxScript == MaxScript(ScriptCounts(sample))
      \* scriptRatio = maxScript.count / totalChars
      strong == maxScript.count > 50 /\ maxScript.count * 100 > 5 * totalChars
      language == FRANC_TO_LANGUAGE_NAME(francOut)
  IN IF Len(cleanText) < 50
     THEN [language |-> Null, confidence |-> <<0, 1>>, method |-> "insufficient-text"]
     ELSE IF strong /\ Truthy(maxScript.language) /\ maxScript.language # sEnglish
     THEN [language |-> maxScript.language,
           confidence |-> ConfMin(<<95, 100>>, <<maxScript.count * 10, totalChars>>),
           method |-> "script-detection"]
     ELSE IF Len(cleanText) >= 100 /\ Truthy(language) /\ language # sEnglish
     THEN [language |-> language, confidence |-> <<7, 10>>, method |-> "franc-statistical"]
     ELSE IF /\ Len(cleanText) >= 100
             /\ language = sEnglish
             /\ maxScript.count * 10 > 3 * totalChars
             /\ maxScript.script = "latin"
     THEN [language |-> sEnglish, confidence |-> <<6, 10>>, method |-> "franc-english"]
     ELSE IF maxScript.count > 20 /\ Truthy(maxScript.language)
     THEN [language |-> maxScript.language, confidence |-> <<4, 10>>, method |-> "script-fallback"]
     ELSE [language |-> Null, confidence |-> <<0, 1>>, method |-> "undetermined"]

\* The script and statistical analysis consulted before the language mention
\* (a variant of detectLanguageFromBodyText).
detectLanguageFromBodyTextAnalysisFirst(html) ==
  LET bodyText == html.bodyText
      languageHint == detectLanguageFromDescription(bodyText)
      analysis == analyzeTextLanguage(bodyText, html.franc)
  IN IF ~Truthy(analysis.language) /\ Truthy(languageHint)
     THEN [language |-> languageHint, confidence |-> <<85, 100>>, method |-> "body-language-mention"]
     ELSE analysis

detectLanguageFromBodyText(html) ==
  LET bodyText == html.bodyText
      languageHint == detectLanguageFromDescription(bodyText)
  IN IF Truthy(languageHint)
     THEN [language |-> languageHint, confidence |-> <<85, 100>>, method |-> "body-language-mention"]
     ELSE analyzeTextLanguage(bodyText, html.franc)

\* ------------------------------------------------------------------------
\* Full-HTML resolution
\* ------------------------------------------------------------------------

\* Weights inside detectLanguageFromHTML are counted in halves, so that
\* signal.weight * 0.5 is exact: a metadata signal of weight w weighs w halves.
HalvedWeight(weight) == weight

\* A body text that weighs 8 whatever its language (a variant of BodyWeight).
BodyWeightEight(bodyResult) == 2 * 8

\* bodyResult.language === 'en' ? 8 : 15, in halves.
BodyWeight(bodyResult) == IF bodyResult.language = sEn THEN 2 * 8 ELSE 2 * 15

\* The override asked of a body confidence of 0.7 (a variant of ConflictOverride).
ConflictOverrideAt70(metadataLang, bodyResult) ==
  /\ metadataLang = sEn
  /\ bodyResult.language # sEn
  /\ ConfGE(bodyResult.confidence, <<7, 10>>)

\* metadataLang === 'en' && bodyResult.language !== 'en' && bodyResult.confidence >= 0.5
ConflictOverride(metadataLang, bodyResult) ==
  /\ metadataLang = sEn
  /\ bodyResult.language # sEn
  /\ ConfGE(bodyResult.confidence, <<5, 10>>)

\* bodyResult.confidence > 0.7 (a variant of HighConfidence).
HighConfidenceAbove(bodyResult) == ~ConfGE(<<7, 10>>, bodyResult.confidence)

\* bodyResult.confidence >= 0.7
HighConfidence(bodyResult) == ConfGE(bodyResult.confidence, <<7, 10>>)

\* The combined signal list at the point of the final aggregation.
CombinedSignals(metadataResult, bodyResult) ==
  LET halved == [k \in 1..Len(metadataResult.signals) |->
                   [metadataResult.signals[k] EXCEPT !.weight = HalvedWeight(@)]]
  IN IF Truthy(bodyResult.language)
     THEN halved \o << [source |-> "body-text", value |-> bodyResult.language,
                        weight |-> BodyWeight(bodyResult)] >>
     ELSE halved

\* The decision of detectLanguageFromHTML on the two analyses: steps 2 to 4.
ResolveSignals(metadataResult, bodyResult) ==
  IF Truthy(bodyResult.language) /\ ConflictOverride(metadataResult.language, bodyResult)
  THEN bodyResult.language
  ELSE IF Truthy(bodyResult.language) /\ HighConfidence(bodyResult)
  THEN bodyResult.language
  ELSE aggregateLanguageSignals(CombinedSignals(metadataResult, bodyResult))

detectLanguageFromHTML(html, metadataOnly) ==
  IF metadataOnly
  THEN detectLanguageFromMetadata(html).language
  ELSE ResolveSignals(detectLanguageFromMetadata(html), detectLanguageFromBodyText(html))

\* response.data that is no string (axios parsed a JSON body into an object)
\* makes cheerio.load / convert raise inside detectLanguageFromHTML.
HtmlAnalysisThrows(data) == data.type # "string"

\* ------------------------------------------------------------------------
\* Inputs
\* ------------------------------------------------------------------------

\* Bounds of the model.
MaxRetries == 1      \* fetchWebsite is called with retries in 0..MaxRetries
MaxCalls == 1        \* detectLanguage calls in one behaviour
NumProcs == 1        \* callers of detectLanguage and fetchWebsite

Procs == 1..NumProcs

\* Program constants.
maxRetries == 1             \* CONFIG.maxRetries
cacheSaveInterval == 20     \* CONFIG.cacheSaveInterval
retryDelay == 300           \* sleep(300)

\* An HTML document (response.data that is a non-empty string).
HtmlDoc(htmlLang, metaLang, ogLocale, metaLangAttr, description, linkHrefs, body) ==
  [type |-> "string", title |-> <<>>, description |-> description,
   ogDescription |-> Undefined, htmlLang |-> htmlLang, metaLang |-> metaLang,
   ogLocale |-> ogLocale, metaLangAttr |-> metaLangAttr, scriptSrcs |-> <<>>,
   linkHrefs |-> linkHrefs, bodyText |-> body.bodyText, franc |-> body.franc]

\* The documents the full-HTML resolution is applied to: every combination of
\* the metadata values and the body texts below.
HtmlInputs ==
  LET
    \* Body texts as html-to-text returns them, each with franc's answer for it.
    BodyTexts ==
      { \* "hello": shorter than 50 characters
        [bodyText |-> <<104, 101, 108, 108, 111>>, franc |-> "und"],
        \* 60 Tamil letters: script share 1
        [bodyText |-> Repeat(2949, 60), franc |-> "tam"],
        \* 51 Tamil letters in 740 characters: script share 0.0689
        [bodyText |-> Repeat(2949, 51) \o Repeat(49, 689), franc |-> "tam"],
        \* 30 Tamil letters in 70 characters: below the strong threshold, under 100
        [bodyText |-> Repeat(2949, 30) \o Repeat(49, 40), franc |-> "und"],
        \* 40 Tamil letters in 120 characters, franc says Tamil
        [bodyText |-> Repeat(2949, 40) \o Repeat(49, 80), franc |-> "tam"],
        \* 120 Latin letters, franc says English
        [bodyText |-> Repeat(97, 120), franc |-> "eng"],
        \* 120 Latin letters, franc says French (outside FRANC_TO_LANGUAGE_NAME)
        [bodyText |-> Repeat(97, 120), franc |-> "fra"],
        \* 120 Arabic letters, franc says Urdu
        [bodyText |-> Repeat(1575, 120), franc |-> "urd"],
        \* 60 digits
        [bodyText |-> Repeat(49, 60), franc |-> "und"],
        \* "7smusic is a famous Tamil language music channel"
        [bodyText |-> <<55, 115, 109, 117, 115, 105, 99, 32, 105, 115, 32, 97, 32, 102, 97,
                        109, 111, 117, 115, 32, 84, 97, 109, 105, 108, 32, 108, 97, 110, 103,
                        117, 97, 103, 101, 32, 109, 117, 115, 105, 99, 32, 99, 104, 97, 110,
                        110, 101, 108>>,
         franc |-> "und"] }

    HtmlLangs ==
      {Undefined, <<101, 110>>, <<101, 110, 45, 85, 83>>, <<116, 97>>, <<104, 105>>}
        \* missing, "en", "en-US", "ta", "hi"
    MetaLangs == {Undefined, <<104, 105>>}                                \* missing, "hi"
    OgLocales == {Undefined, <<104, 105, 95, 73, 78>>}                    \* missing, "hi_IN"
    MetaLangAttrs == {Undefined, <<72, 105, 110, 100, 105>>, <<102, 114>>}
        \* missing, "Hindi", "fr"
    Descriptions ==
      {Undefined,
       <<87, 97, 116, 99, 104, 32, 72, 105, 110, 100, 105, 32, 110, 101, 119, 115, 32, 108,
         105, 118, 101>>}                                                  \* "Watch Hindi news live"
    LinkHrefs ==
      {<<>>,
       <<47, 115, 116, 97, 116, 105, 99, 47, 104, 105, 45, 105, 110, 47, 115, 105, 116, 101,
         46, 99, 115, 115>>}                                               \* "/static/hi-in/site.css"
  IN {HtmlDoc(hl, ml, og, la, de, li, b) :
        hl \in HtmlLangs, ml \in MetaLangs, og \in OgLocales, la \in MetaLangAttrs,
        de \in Descriptions, li \in LinkHrefs, b \in BodyTexts}

NoHtml == [type |-> "none"]
EmptyString == [type |-> "empty"]       \* response.data === ''
JsonObject == [type |-> "object"]       \* response.data parsed into an object

\* Visible texts of chosen lengths around the thresholds of the analyzers:
\* n characters of one kind; the same with a run of white space in the middle
\* and white space around; and the same after a language mention.
TextInputs ==
  LET
    TextLengths == {0, 1, 20, 48, 49, 50, 51, 99, 100}
    TextFills == {2949, 2309, 97, 49}       \* a Tamil letter, a Devanagari letter, 'a', '1'
    TextFrancs == {"und", "tam", "eng"}
    Spaced(c, n) ==
      IF n < 3 THEN Repeat(c, n)
      ELSE <<32, 9>> \o Repeat(c, 1) \o <<32, 10, 160>> \o Repeat(c, n - 2) \o <<13, 32>>
    TextLeads ==
      { <<>>,
        <<84, 97, 109, 105, 108, 32, 108, 97, 110, 103, 117, 97, 103, 101, 32>>,   \* "Tamil language "
        <<72, 73, 78, 68, 73, 32, 9, 32, 78, 101, 119, 115, 46, 32>>,   \* "HINDI \t News. "
        <<116, 97, 109, 105, 108, 110, 101, 119, 115, 32>>,   \* "tamilnews "
        <<84, 97, 109, 105, 108, 32, 108, 97, 110, 103, 117, 97, 103, 101, 115, 32>>,   \* "Tamil languages "
        <<85, 114, 100, 117, 32, 110, 101, 119, 115, 32, 97, 110, 100, 32, 84, 101, 108, 117, 103, 117, 10, 99, 105, 110, 101, 109, 97, 32>> }  \* "Urdu news and Telugu\ncinema "
  IN {[bodyText |-> lead \o fill, franc |-> franc] :
        lead \in TextLeads, franc \in TextFrancs,
        fill \in {Repeat(c, n) : c \in TextFills, n \in TextLengths}
                 \cup {Spaced(c, n) : c \in TextFills, n \in TextLengths}}

\* The documents of the texts: without metadata, with a description that
\* mentions a language, with <html lang="en"> and with <html lang="klingon">.
TextDocs ==
  {HtmlDoc(Undefined, Undefined, Undefined, Undefined, de, <<>>, b) :
     de \in {Undefined,
              <<87, 97, 116, 99, 104, 32, 72, 105, 110, 100, 105, 32, 110, 101, 119, 115,
                32, 108, 105, 118, 101>>},                   \* "Watch Hindi news live"
     b \in TextInputs}
  \cup {HtmlDoc(<<101, 110>>, Undefined, Undefined, Undefined, Undefined, <<>>, b) :
           b \in TextInputs}
  \cup {HtmlDoc(<<107, 108, 105, 110, 103, 111, 110>>, Undefined, Undefined, Undefined,
                Undefined, <<>>, b) : b \in TextInputs}


\* Channel records: name is a string; tvgId is a string, '', null or missing.
ChannelNames ==
  { <<88, 89, 90, 32, 84, 97, 109, 105, 108, 32, 78, 101, 119, 115>>,   \* "XYZ Tamil News"
    <<83, 117, 110, 32, 84, 86>>,                                       \* "Sun TV"
    <<84, 97, 109, 105, 108, 97, 110>>,                                 \* "Tamilan"
    <<81, 55>> }                                                        \* "Q7"
TvgIds ==
  { <<83, 117, 110, 84, 86, 46, 105, 110, 64, 72, 68>>,                 \* "SunTV.in@HD"
    <<78, 111, 116, 65, 68, 111, 109, 97, 105, 110>>,                   \* "NotADomain"
    <<>>, Null, Undefined }
Channels == [name : ChannelNames, tvgId : TvgIds]
NoChannel == [name |-> <<>>, tvgId |-> Undefined]

\* Channel names for the pattern matcher, and the tvgId values extractDomain
\* finds no domain in.
PatternNames ==
  { <<>>,   \* ""
    <<83, 117, 110, 32, 84, 86>>,   \* "Sun TV"
    <<83, 85, 78, 32, 84, 86, 32, 72, 68>>,   \* "SUN TV HD"
    <<81, 55>>,   \* "Q7"
    <<78, 101, 119, 115, 32, 50, 52>>,   \* "News 24"
    <<71, 101, 109, 105, 110, 105, 32, 77, 111, 118, 105, 101, 115>>,   \* "Gemini Movies"
    <<66, 108, 101, 115, 115, 105, 110, 103, 10, 84, 97, 109, 105, 108, 97, 110>>,   \* "Blessing\nTamilan"
    <<83, 116, 97, 114, 32, 77, 97, 97>>,   \* "Star Maa"
    <<68, 68, 32, 73, 110, 100, 105, 97>>,   \* "DD India"
    <<49, 50, 51>>,   \* "123"
    <<68, 101, 115, 105, 32, 66, 101, 97, 116, 115>>,   \* "Desi Beats"
    <<65, 97, 115, 116, 104, 97, 10, 84, 101, 108, 117, 103, 117>>,   \* "Aastha\nTelugu"
    <<82, 97, 106, 32, 77, 117, 115, 105, 120>>,   \* "Raj Musix"
    <<83, 111, 110, 121, 32, 86, 105, 106, 97, 121>>,   \* "Sony Vijay"
    <<8490, 97, 108, 97, 105, 103, 110, 97, 114>>,   \* "\u212Aalaignar" (KELVIN SIGN)
    <<67, 111, 108, 111, 114, 115>> }   \* "Colors"
NoDomainTvgIds ==
  { <<78, 111, 116, 65, 68, 111, 109, 97, 105, 110>>,                   \* "NotADomain"
    <<64, 72, 68>>,                                                     \* "@HD"
    <<>>, Null, Undefined }
PatternChannels == [name : PatternNames, tvgId : NoDomainTvgIds]

\* Values handed to extractDomain: white space, a first label, the dotted
\* groups after it and what follows the domain; and values that are no strings.
TvgIdInputs ==
  LET
      \* the first label
      HostLabels ==
      { <<83, 117, 110, 84, 86>>,   \* "SunTV"
        <<55, 83, 77, 117, 115, 105, 99>>,   \* "7SMusic"
        <<97>>,   \* "a"
        <<45, 98, 97, 100>>,   \* "-bad"
        <<98, 97, 100, 45>>,   \* "bad-"
        <<97, 45, 98>>,   \* "a-b"
        <<119, 119, 119, 46, 115, 117, 110, 45, 116, 118>>,   \* "www.sun-tv"
        <<>>,   \* ""
        <<83, 117, 110, 32, 84, 86>>,   \* "Sun TV"
        <<90, 101, 101, 95, 78, 101, 119, 115>> }   \* "Zee_News"
      \* the groups after the first label
      HostGroups ==
      { <<46, 105, 110>>,   \* ".in"
        <<46, 99, 111, 46, 105, 110>>,   \* ".co.in"
        <<46, 105>>,   \* ".i"
        <<46, 99, 48, 109>>,   \* ".c0m"
        <<>>,   \* ""
        <<46, 105, 110, 46>> }   \* ".in."
      \* what follows the domain
      HostSuffixes ==
      { <<>>,   \* ""
        <<64, 72, 68>>,   \* "@HD"
        <<64>>,   \* "@"
        <<64, 72, 68, 64, 120>> }   \* "@HD@x"
      \* white space around the domain
      HostPads ==
      { <<>>,   \* ""
        <<32>> }   \* " "
  IN {pad \o label \o groups \o pad \o suffix :
        pad \in HostPads, label \in HostLabels, groups \in HostGroups,
        suffix \in HostSuffixes}
       \cup {Null, Undefined, NotAString}

\* What a web site answers with: response.data of a successful response.
WebData ==
  { EmptyString, JsonObject,
    \* <html lang="en">, 60 Tamil letters in the body
    HtmlDoc(<<101, 110>>, Undefined, Undefined, Undefined, Undefined, <<>>,
            [bodyText |-> Repeat(2949, 60), franc |-> "tam"]),
    \* <html lang="hi">, a body of five characters
    HtmlDoc(<<104, 105>>, Undefined, Undefined, Undefined, Undefined, <<>>,
            [bodyText |-> <<104, 101, 108, 108, 111>>, franc |-> "und"]),
    \* <meta name="language" content="fr">, a body of five characters
    HtmlDoc(Undefined, Undefined, Undefined, <<102, 114>>, Undefined, <<>>,
            [bodyText |-> <<104, 101, 108, 108, 111>>, franc |-> "und"]),
    \* no language signal at all
    HtmlDoc(Undefined, Undefined, Undefined, Undefined, Undefined, <<>>,
            [bodyText |-> Repeat(49, 60), franc |-> "und"]) }

\* How one axios.get settles: a network error or timeout, or a response.
Outcomes ==
  { [kind |-> "error", status |-> 0, data |-> NoHtml],       \* no response, or the timeout
    [kind |-> "response", status |-> 404, data |-> NoHtml] } \* its body is never read
    \cup [kind : {"response"}, status : {200}, data : WebData]

\* Every status accepted (a variant of validateStatus).
validateStatusAny(status) == TRUE

NoOutcome == [kind |-> "none", status |-> 0, data |-> NoHtml]

\* validateStatus: (status) => status < 400
validateStatus(status) == status < 400

\* Cache entries a previous run can have left in the cache file.
NoEntry == [language |-> Null, source |-> "none"]
CacheOf(domain, language, source) ==
  [d \in {domain} |-> [language |-> language, source |-> source]]
InitialCaches ==
  { <<>>,
    CacheOf(<<83, 117, 110, 84, 86, 46, 105, 110>>, <<104, 105>>, "web"),
    CacheOf(<<83, 117, 110, 84, 86, 46, 105, 110>>, sHindi, "pattern"),
    CacheOf(<<83, 117, 110, 84, 86, 46, 105, 110>>, sHindi, "name-explicit") }

\* The pure functions of detectLanguage over the inputs above, evaluated once:
\* extractDomain(channel.tvgId), detectExplicitLanguageInName(channel.name),
\* detectLanguageByPattern(channel.name) and detectLanguageFromHTML(html).
DomainOf == [tvgId \in TvgIds \cup NoDomainTvgIds |-> extractDomain(tvgId)]
ExplicitLangOf ==
  [name \in ChannelNames \cup PatternNames |-> detectExplicitLanguageInName(name)]
PatternLangOf ==
  [name \in ChannelNames \cup PatternNames |-> detectLanguageByPattern(name)]
DetectedLangOf ==
  [data \in {d \in WebData : ~HtmlAnalysisThrows(d)} |-> detectLanguageFromHTML(data, FALSE)]

\* ------------------------------------------------------------------------
\* State
\* ------------------------------------------------------------------------

VARIABLES
  cache,          \* LanguageCache.cache: domain -> [language, source]
  pendingWrites,  \* LanguageCache.pendingWrites
  dirty,          \* LanguageCache.dirty
  cacheFile,      \* the content of the cache file
  det,            \* per caller: where its detectLanguage call is
  chan,           \* per caller: the channel of the call
  atCall,         \* per caller: the domain and the cache entry found at the call
  result,         \* per caller: what the call returned
  fetch,          \* per caller: the fetchWebsite call in progress, with the number of
                  \* requests settled, the outcome of the last one and the sleep
  log,            \* per caller: the requests of the fetchWebsite call, in order
  calls,          \* detectLanguage calls made so far
  html,           \* the document handed to detectLanguageFromHTML
  htmlResult,     \* its result, with the intermediate results it was decided on
  tvgIdIn,        \* the value handed to extractDomain
  domainOut,      \* what extractDomain did with it
  signalsIn,      \* the signals handed to aggregateLanguageSignals
  codeOut,        \* what aggregateLanguageSignals did with them
  cacheCall,      \* the last call of a LanguageCache method made on its own
  channels,       \* processBatch: the channel records, in order
  files,          \* per channel: the language field of its file in tv/, if any
  stats,          \* processBatch: the counters of the run
  work,           \* per channel: where its enrichChannel call is
  run             \* processBatch: the loop over the batches

cacheVars == <<cache, pendingWrites, dirty, cacheFile>>
detVars == <<det, chan, atCall, result, calls>>
fetchVars == <<fetch, log>>
htmlVars == <<html, htmlResult>>
fnVars == <<tvgIdIn, domainOut, signalsIn, codeOut, cacheCall>>
runVars == <<channels, files, stats, work, run>>
vars == <<cache, pendingWrites, dirty, cacheFile, det, chan, atCall, result, fetch, log,
          calls, html, htmlResult, tvgIdIn, domainOut, signalsIn, codeOut, cacheCall,
          channels, files, stats, work, run>>

NoFetch ==
  [st |-> "none", domain |-> <<>>, retries |-> 0, u |-> 0, attempt |-> 0, settled |-> 0, ms |-> 0,
   last |-> NoOutcome, html |-> NoHtml, url |-> <<>>, error |-> <<>>]
NoResult == [language |-> Null, source |-> "none"]
NoAtCall == [domain |-> Null, hit |-> FALSE, entry |-> NoEntry]
NoHtmlResult ==
  [mode |-> "none", language |-> Null, metadataLang |-> Null, signals |-> <<>>,
   metadataConfidence |-> "none",
   bodyResult |-> [language |-> Null, confidence |-> <<0, 1>>, method |-> "none"],
   textResult |-> [language |-> Null, confidence |-> <<0, 1>>, method |-> "none"]]

\* ------------------------------------------------------------------------
\* LanguageCache
\* ------------------------------------------------------------------------

CacheHas(domain) == domain \in DOMAIN cache
CacheGet(domain) == cache[domain]

\* set saving one write later (a variant of CacheSet).
CacheSetLate(domain, language, source, writes) ==
  LET entry == [language |-> language, source |-> source]
      written == [d \in (DOMAIN cache) \cup {domain} |->
                    IF d = domain THEN entry ELSE cache[d]]
  IN /\ cache' = written
     /\ IF pendingWrites + 1 > cacheSaveInterval
        THEN /\ pendingWrites' = 0
             /\ \E ok \in writes :
                  /\ cacheFile' = IF ok THEN written ELSE cacheFile
                  /\ dirty' = ~ok
        ELSE /\ pendingWrites' = pendingWrites + 1
             /\ dirty' = TRUE
             /\ cacheFile' = cacheFile

\* set(domain, language, source), with the save() of every cacheSaveInterval-th
\* pending write; writeFileSync succeeds or fails as writes allows (TRUE: it
\* succeeds), and save() logs and survives a failure.
\* (The timestamp of an entry is never read and is left out.)
CacheSet(domain, language, source, writes) ==
  LET entry == [language |-> language, source |-> source]
      written == [d \in (DOMAIN cache) \cup {domain} |->
                    IF d = domain THEN entry ELSE cache[d]]
  IN /\ cache' = written
     /\ IF pendingWrites + 1 >= cacheSaveInterval
        THEN /\ pendingWrites' = 0
             /\ \E ok \in writes :
                  /\ cacheFile' = IF ok THEN written ELSE cacheFile
                  /\ dirty' = ~ok
        ELSE /\ pendingWrites' = pendingWrites + 1
             /\ dirty' = TRUE
             /\ cacheFile' = cacheFile

\* ------------------------------------------------------------------------
\* fetchWebsite
\* ------------------------------------------------------------------------

\* The candidates with the bare domain first (a variant of Urls).
UrlsPlainFirst(domain) ==
  << <<104, 116, 116, 112, 115, 58, 47, 47>> \o domain,
     <<104, 116, 116, 112, 115, 58, 47, 47, 119, 119, 119, 46>> \o domain,
     <<104, 116, 116, 112, 58, 47, 47, 119, 119, 119, 46>> \o domain >>

\* urls: the candidates in priority order.
Urls(domain) ==
  << <<104, 116, 116, 112, 115, 58, 47, 47, 119, 119, 119, 46>> \o domain,  \* https://www.
     <<104, 116, 116, 112, 115, 58, 47, 47>> \o domain,                     \* https://
     <<104, 116, 116, 112, 58, 47, 47, 119, 119, 119, 46>> \o domain >>     \* http://www.

\* `Failed to fetch any URL for domain: ${domain}`
FetchError(domain) ==
  <<70, 97, 105, 108, 101, 100, 32, 116, 111, 32, 102, 101, 116, 99, 104, 32, 97, 110, 121,
    32, 85, 82, 76, 32, 102, 111, 114, 32, 100, 111, 109, 97, 105, 110, 58, 32>> \o domain

\* A request of a fetchWebsite call: axios.get(url, ...) at an attempt.
GetEvent(f) == [url |-> Urls(f.domain)[f.u], attempt |-> f.attempt]

\* The two for loops from the test of the inner one at (u, attempt): the next
\* axios.get is issued (at this attempt, or at attempt 0 of the next URL when
\* the inner loop is over), or the URLs are used up and the function throws.
LoopFrom(f, u, attempt) ==
  IF attempt <= f.retries /\ u <= Len(Urls(f.domain))
  THEN [f EXCEPT !.st = "inflight", !.u = u, !.attempt = attempt]
  ELSE IF u < Len(Urls(f.domain)) /\ 0 <= f.retries
  THEN [f EXCEPT !.st = "inflight", !.u = u + 1, !.attempt = 0]
  ELSE [f EXCEPT !.st = "threw", !.error = FetchError(f.domain)]

\* The log after the loops moved on to state g.
Logged(lg, g) == IF g.st = "inflight" THEN Append(lg, GetEvent(g)) ELSE lg

\* fetchWebsite(domain, retries) up to its first await.
FetchStart(domain, retries) ==
  LoopFrom([NoFetch EXCEPT !.domain = domain, !.retries = retries], 1, 0)

\* response.data is truthy
DataTruthy(data) == data.type # "empty"

\* The awaited axios.get settles with outcome o, and fetchWebsite runs on to
\* its next await, its return or its throw.
FetchSettled(f0, o) ==
  LET f == [f0 EXCEPT !.settled = @ + 1, !.last = o]
  IN
  IF o.kind = "response" /\ validateStatus(o.status)
  THEN IF DataTruthy(o.data)
       THEN [f EXCEPT !.st = "returned", !.html = o.data, !.url = Urls(f.domain)[f.u]]
       ELSE LoopFrom(f, f.u, f.attempt + 1)
  ELSE \* catch (error)
       IF f.attempt = f.retries
       THEN LoopFrom(f, f.u + 1, 0)                       \* break
       ELSE [f EXCEPT !.st = "sleeping", !.ms = retryDelay] \* await sleep(300)

AxiosSettles(p, o) ==
  /\ fetch[p].st = "inflight"
  /\ LET g == FetchSettled(fetch[p], o)
     IN /\ fetch' = [fetch EXCEPT ![p] = g]
        /\ log' = [log EXCEPT ![p] = Logged(@, g)]
  /\ UNCHANGED <<cacheVars, detVars, htmlVars, fnVars, runVars>>

\* sleep(300) is over: attempt++ and the next axios.get.
SleepOver(p) ==
  /\ fetch[p].st = "sleeping"
  /\ LET g == LoopFrom([fetch[p] EXCEPT !.ms = 0], fetch[p].u, fetch[p].attempt + 1)
     IN /\ fetch' = [fetch EXCEPT ![p] = g]
        /\ log' = [log EXCEPT ![p] = Logged(@, g)]
  /\ UNCHANGED <<cacheVars, detVars, htmlVars, fnVars, runVars>>

\* fetchWebsite(domain, retries) is called on its own.
FetchCall(p, domain, retries) ==
  /\ fetch[p].st = "none"
  /\ det[p] = "idle"
  /\ LET g == FetchStart(domain, retries)
     IN /\ fetch' = [fetch EXCEPT ![p] = g]
        /\ log' = [log EXCEPT ![p] = Logged(<<>>, g)]
  /\ UNCHANGED <<cacheVars, detVars, htmlVars, fnVars, runVars>>

\* ------------------------------------------------------------------------
\* detectLanguage
\* ------------------------------------------------------------------------

\* The stored source without the prefix (a variant of CachedSource).
CachedSourceBare(source) == source

\* `cached-${cached.source}` for the sources set() is called with.
CachedSource(source) ==
  CASE source = "web" -> "cached-web"
    [] source = "pattern" -> "cached-pattern"
    [] source = "name-explicit" -> "cached-name-explicit"
    [] OTHER -> "cached-"

\* The call returns {language, source}.
Returns(p, language, source) ==
  /\ result' = [result EXCEPT ![p] = [language |-> language, source |-> source]]
  /\ det' = [det EXCEPT ![p] = "returned"]

\* The pattern fallback that caches nothing (a variant of PatternFallback).
PatternFallbackUncached(p, channel, domain) ==
  /\ UNCHANGED cacheVars
  /\ Returns(p, PatternLangOf[channel.name], "pattern")

\* Strategy 3: the pattern fallback, cached when there is a domain.
PatternFallback(p, channel, domain) ==
  LET patternLang == PatternLangOf[channel.name]
  IN /\ IF Truthy(domain) THEN CacheSet(domain, patternLang, "pattern", BOOLEAN)
                          ELSE UNCHANGED cacheVars
     /\ Returns(p, patternLang, "pattern")

\* The cache consulted before the channel name (a variant of Strategy).
StrategyCacheFirst(explicitLang, domain) ==
  IF Truthy(domain) /\ CacheHas(domain) THEN "cache"
  ELSE IF Truthy(explicitLang) THEN "name-explicit"
  ELSE IF Truthy(domain) THEN "web"
  ELSE "pattern"

\* The strategy detectLanguage takes at the call: the order of its tests.
Strategy(explicitLang, domain) ==
  IF Truthy(explicitLang) THEN "name-explicit"
  ELSE IF Truthy(domain) /\ CacheHas(domain) THEN "cache"
  ELSE IF Truthy(domain) THEN "web"
  ELSE "pattern"

\* What each strategy does at the call.
Strategy0(p, domain, explicitLang) ==
  /\ IF Truthy(domain) THEN CacheSet(domain, explicitLang, "name-explicit", BOOLEAN)
                       ELSE UNCHANGED cacheVars
  /\ Returns(p, explicitLang, "name-explicit")
  /\ UNCHANGED fetchVars

Strategy1(p, domain) ==
  /\ Returns(p, CacheGet(domain).language, CachedSource(CacheGet(domain).source))
  /\ UNCHANGED <<cacheVars, fetchVars>>

Strategy2(p, domain) ==
  /\ LET g == FetchStart(domain, maxRetries)
     IN /\ fetch' = [fetch EXCEPT ![p] = g]
        /\ log' = [log EXCEPT ![p] = Logged(<<>>, g)]
  /\ det' = [det EXCEPT ![p] = "awaitFetch"]
  /\ UNCHANGED <<cacheVars, result>>

TakeStrategy(p, channel, domain, explicitLang, strategy) ==
  CASE strategy = "name-explicit" -> Strategy0(p, domain, explicitLang)
    [] strategy = "cache" -> Strategy1(p, domain)
    [] strategy = "web" -> Strategy2(p, domain)
    [] OTHER -> PatternFallback(p, channel, domain) /\ UNCHANGED fetchVars

\* What the call finds: the domain of the channel and its cache entry.
AtCall(domain) ==
  [domain |-> domain,
   hit |-> Truthy(domain) /\ CacheHas(domain),
   entry |-> IF Truthy(domain) /\ CacheHas(domain) THEN CacheGet(domain) ELSE NoEntry]

\* detectLanguage(channel, cache) up to its return or to its await of
\* fetchWebsite(domain), whose first request is then in flight.
DetectWith(p, channel, domain, explicitLang) ==
  /\ atCall' = [atCall EXCEPT ![p] = AtCall(domain)]
  /\ TakeStrategy(p, channel, domain, explicitLang, Strategy(explicitLang, domain))

DetectCall(p, channel) ==
  /\ det[p] = "idle"
  /\ fetch[p].st = "none"
  /\ calls < MaxCalls
  /\ calls' = calls + 1
  /\ chan' = [chan EXCEPT ![p] = channel]
  /\ UNCHANGED <<htmlVars, fnVars, runVars>>
  /\ DetectWith(p, channel, DomainOf[channel.tvgId], ExplicitLangOf[channel.name])

\* The test without its first conjunct (a variant of WebOutcome).
WebOutcomeNotUnknown(detectedLang) ==
  IF detectedLang # sUnknown
  THEN [kind |-> "web", language |-> detectedLang]
  ELSE [kind |-> "fallback", language |-> Null]

\* if (detectedLang && detectedLang !== 'unknown'): the language is cached and
\* returned ("web"), or the pattern strategy follows ("fallback").
WebOutcome(detectedLang) ==
  IF Truthy(detectedLang) /\ detectedLang # sUnknown
  THEN [kind |-> "web", language |-> detectedLang]
  ELSE [kind |-> "fallback", language |-> Null]

\* The try block without its catch (a variant of WebDetection).
WebDetectionUncaught(f) ==
  IF f.st = "threw" \/ HtmlAnalysisThrows(f.html)
  THEN [kind |-> "raised", language |-> Null]
  ELSE WebOutcome(DetectedLangOf[f.html])

\* The try block once fetchWebsite settled, and its catch, which swallows an
\* exception of fetchWebsite or of the analysis.
WebDetection(f) ==
  IF f.st = "threw" \/ HtmlAnalysisThrows(f.html)
  THEN [kind |-> "fallback", language |-> Null]
  ELSE WebOutcome(DetectedLangOf[f.html])

\* What detectLanguage does with the outcome w of the web strategy.
ResumeWith(p, domain, w) ==
  CASE w.kind = "web" ->
         /\ CacheSet(domain, w.language, "web", BOOLEAN)
         /\ Returns(p, w.language, "web")
    [] w.kind = "fallback" -> PatternFallback(p, chan[p], domain)
    [] OTHER -> \* an exception nothing catches rejects the call
         /\ det' = [det EXCEPT ![p] = "threw"]
         /\ UNCHANGED <<cacheVars, result>>

\* detectLanguage resumes after await fetchWebsite(domain).
DetectResume(p) ==
  /\ det[p] = "awaitFetch"
  /\ fetch[p].st \in {"returned", "threw"}
  /\ UNCHANGED <<fetchVars, htmlVars, fnVars, runVars, chan, atCall, calls>>
  /\ ResumeWith(p, fetch[p].domain, WebDetection(fetch[p]))

\* The caller takes the result; it may call again.
DetectDone(p) ==
  /\ det[p] \in {"returned", "threw"}
  /\ det' = [det EXCEPT ![p] = "idle"]
  /\ chan' = [chan EXCEPT ![p] = NoChannel]
  /\ atCall' = [atCall EXCEPT ![p] = NoAtCall]
  /\ result' = [result EXCEPT ![p] = NoResult]
  /\ fetch' = [fetch EXCEPT ![p] = NoFetch]
  /\ log' = [log EXCEPT ![p] = <<>>]
  /\ UNCHANGED <<cacheVars, calls, htmlVars, fnVars, runVars>>

\* ------------------------------------------------------------------------
\* detectLanguageFromHTML applied to a document
\* ------------------------------------------------------------------------

ResolveHTML(metadataOnly) ==
  /\ htmlResult.mode = "none"
  /\ htmlResult' =
       [mode |-> IF metadataOnly THEN "metadataOnly" ELSE "full",
        language |-> detectLanguageFromHTML(html, metadataOnly),
        metadataLang |-> detectLanguageFromMetadata(html).language,
        signals |-> detectLanguageFromMetadata(html).signals,
        metadataConfidence |-> detectLanguageFromMetadata(html).confidence,
        bodyResult |-> detectLanguageFromBodyText(html),
        textResult |-> analyzeTextLanguage(html.bodyText, html.franc)]
  /\ UNCHANGED <<cacheVars, detVars, fetchVars, html, fnVars, runVars>>

ResolveFull == ResolveHTML(FALSE)
ResolveMetadataOnly == ResolveHTML(TRUE)

\* ------------------------------------------------------------------------
\* Specifications
\* ------------------------------------------------------------------------

InitCallers ==
  /\ det = [p \in Procs |-> "idle"]
  /\ chan = [p \in Procs |-> NoChannel]
  /\ atCall = [p \in Procs |-> NoAtCall]
  /\ result = [p \in Procs |-> NoResult]
  /\ fetch = [p \in Procs |-> NoFetch]
  /\ log = [p \in Procs |-> <<>>]
  /\ calls = 0

\* No extractDomain call and no processBatch run of their own.
NotExtracting ==
  /\ tvgIdIn = Undefined
  /\ domainOut = [st |-> "none", value |-> Null]
  /\ signalsIn = <<>>
  /\ codeOut = [st |-> "none", value |-> Null]
  /\ cacheCall = [op |-> "none"]

NotRunning ==
  /\ channels = <<>>
  /\ files = <<>>
  /\ stats = [enriched |-> 0, skipped |-> 0, errors |-> 0, sources |-> <<>>, languages |-> <<>>]
  /\ work = <<>>
  /\ run = [st |-> "none", i |-> 0, batchSize |-> 0, next |-> 0, ms |-> 0]

\* new LanguageCache(cacheFile): the file is loaded, nothing is pending.
InitCache(loaded) ==
  /\ cache = loaded
  /\ cacheFile = loaded
  /\ pendingWrites = 0
  /\ dirty = FALSE

NoDocument == HtmlDoc(Undefined, Undefined, Undefined, Undefined, Undefined, <<>>,
                      [bodyText |-> <<>>, franc |-> "und"])

\* Spec: detectLanguage is called on a cache that a previous run may have filled.

Init ==
  /\ \E loaded \in InitialCaches : InitCache(loaded)
  /\ InitCallers
  /\ html = NoDocument
  /\ htmlResult = NoHtmlResult
  /\ NotExtracting
  /\ NotRunning

Next ==
  \E p \in Procs :
    \/ \E channel \in Channels : DetectCall(p, channel)
    \/ \E o \in Outcomes : AxiosSettles(p, o)
    \/ SleepOver(p)
    \/ DetectResume(p)
    \/ DetectDone(p)

Spec == Init /\ [][Next]_vars

\* The steps of DetectResume(p) as the caller sees them: the call in progress
\* returns once its fetch has settled.
ResumeStep(p) ==
  /\ det[p] = "awaitFetch"
  /\ fetch[p].st \in {"returned", "threw"}
  /\ det' = [det EXCEPT ![p] = "returned"]

\* Every request settles (axios is given a timeout), every sleep ends, and a
\* call whose awaited promise has settled resumes.
Fairness ==
  \A p \in Procs :
    /\ WF_vars(\E o \in Outcomes : AxiosSettles(p, o))
    /\ WF_vars(SleepOver(p))
    /\ WF_det(ResumeStep(p))

FairSpec == Spec /\ Fairness

\* SpecFetch: fetchWebsite(domain, retries) called on its own.
InitFetch ==
  /\ InitCache(<<>>)
  /\ InitCallers
  /\ html = NoDocument
  /\ htmlResult = NoHtmlResult
  /\ NotExtracting
  /\ NotRunning

NextFetch ==
  \E p \in Procs :
    \/ \E domain \in { <<83, 117, 110, 84, 86, 46, 105, 110>>,       \* "SunTV.in"
                        <<122, 101, 101, 53, 46, 99, 111, 109>> },    \* "zee5.com"
          retries \in 0..MaxRetries : FetchCall(p, domain, retries)
    \/ \E o \in Outcomes : AxiosSettles(p, o)
    \/ SleepOver(p)

SpecFetch == InitFetch /\ [][NextFetch]_vars

FairSpecFetch == SpecFetch /\ Fairness

\* SpecHTML: detectLanguageFromHTML(html, options) applied to a document.
InitDocs(docs) ==
  /\ InitCache(<<>>)
  /\ InitCallers
  /\ html \in docs
  /\ htmlResult = NoHtmlResult
  /\ NotExtracting
  /\ NotRunning

NextHTML == ResolveFull \/ ResolveMetadataOnly

SpecHTML == InitDocs(HtmlInputs) /\ [][NextHTML]_vars

\* SpecPattern: detectLanguage called for channels extractDomain finds no
\* domain in, on a cache that a previous run may have filled.
SpecPattern ==
  Init /\ [][\E p \in Procs :
             \/ \E channel \in PatternChannels : DetectCall(p, channel)
             \/ DetectDone(p)]_vars

\* SpecDomain: extractDomain(tvgId) applied to a value.
ExtractDomainCall ==
  /\ domainOut.st = "none"
  /\ domainOut' = [st |-> "returned", value |-> extractDomain(tvgIdIn)]
  /\ UNCHANGED <<cacheVars, detVars, fetchVars, htmlVars, tvgIdIn, signalsIn, codeOut, cacheCall,
                 runVars>>

InitDomain ==
  /\ InitCache(<<>>)
  /\ InitCallers
  /\ html = NoDocument
  /\ htmlResult = NoHtmlResult
  /\ tvgIdIn \in TvgIdInputs
  /\ domainOut = [st |-> "none", value |-> Null]
  /\ signalsIn = <<>>
  /\ codeOut = [st |-> "none", value |-> Null]
  /\ cacheCall = [op |-> "none"]
  /\ NotRunning

SpecDomain == InitDomain /\ [][ExtractDomainCall]_vars

\* SpecText: the analyzers applied to documents whose visible text varies in
\* length, script, white space and language mentions.
SpecText == InitDocs(TextDocs) /\ [][NextHTML]_vars

\* ------------------------------------------------------------------------
\* enrichChannel and processBatch
\* ------------------------------------------------------------------------

\* Bounds of the runs.
MaxChannels == 3     \* channels handed to processBatch
MaxBatch == 2        \* its batchSize

rateLimitDelay == 200       \* CONFIG.rateLimitDelay

Workers == 1..MaxChannels
NoFile == <<-4>>

\* Channel records of a run, each with whether tv/<id>.json exists: a channel
\* of a domain whose language is 'unknown' (two of them share the domain), a
\* channel that has its language, a record without a name, and a channel
\* without a domain whose language is ''.
RunChannels ==
  { [name |-> <<81, 55>>,                                              \* "Q7"
     tvgId |-> <<83, 117, 110, 84, 86, 46, 105, 110, 64, 72, 68>>,     \* "SunTV.in@HD"
     language |-> sUnknown, file |-> FALSE],
    [name |-> <<88, 89, 90, 32, 84, 97, 109, 105, 108, 32, 78, 101, 119, 115>>,
     tvgId |-> <<83, 117, 110, 84, 86, 46, 105, 110, 64, 72, 68>>,
     language |-> <<116, 97>>, file |-> TRUE],                         \* 'ta'
    [name |-> Undefined, tvgId |-> Null, language |-> Undefined, file |-> TRUE],
    [name |-> <<81, 55>>, tvgId |-> Null, language |-> <<>>, file |-> TRUE] }

\* How a request of a run settles: an error, or a page in Hindi.
RunOutcomes ==
  { [kind |-> "error", status |-> 0, data |-> NoHtml],
    [kind |-> "response", status |-> 200,
     data |-> HtmlDoc(<<104, 105>>, Undefined, Undefined, Undefined, Undefined, <<>>,
                      [bodyText |-> <<104, 101, 108, 108, 111>>, franc |-> "und"])] }

\* flush(): save() when dirty, whose writeFileSync succeeds or fails as writes
\* allows, and no write pending.
CacheFlush(writes) ==
  IF dirty
  THEN /\ \E ok \in writes :
            /\ cacheFile' = IF ok THEN cache ELSE cacheFile
            /\ dirty' = ~ok
       /\ pendingWrites' = 0
       /\ UNCHANGED cache
  ELSE UNCHANGED cacheVars

\* The index of the last channel of the batch that starts after channel i.
BatchEnd(i) == IF i + run.batchSize < Len(channels) THEN i + run.batchSize ELSE Len(channels)

\* No channel taken to have a language (a variant of HasLanguage).
HasLanguageNever(channel) == FALSE

\* if (channel.language && channel.language !== 'unknown')
HasLanguage(channel) == Truthy(channel.language) /\ channel.language # sUnknown

\* detectLanguage(channel, cache) up to its first await, its return or its
\* exception: a name that is no string makes channelName.toLowerCase() throw.
EnrichDetect(p, channel) ==
  /\ calls' = calls + 1
  /\ chan' = [chan EXCEPT ![p] = [name |-> channel.name, tvgId |-> channel.tvgId]]
  /\ IF IsString(channel.name)
     THEN DetectWith(p, channel, DomainOf[channel.tvgId], ExplicitLangOf[channel.name])
     ELSE /\ det' = [det EXCEPT ![p] = "threw"]
          /\ atCall' = [atCall EXCEPT ![p] = [NoAtCall EXCEPT !.domain = DomainOf[channel.tvgId]]]
          /\ UNCHANGED <<cacheVars, result, fetchVars>>

\* batch.map calls enrichChannel for the next channel of the batch, which runs
\* up to its return (the skip) or to its await of detectLanguage.
EnrichStart(p) ==
  /\ run.st = "mapping"
  /\ p = run.next
  /\ run' = [run EXCEPT !.next = p + 1,
                        !.st = IF p = BatchEnd(run.i) THEN "awaiting" ELSE "mapping"]
  /\ IF HasLanguage(channels[p])
     THEN /\ stats' = [stats EXCEPT !.skipped = @ + 1]
          /\ work' = [work EXCEPT ![p] = "skipped"]
          /\ UNCHANGED <<cacheVars, detVars, fetchVars>>
     ELSE /\ work' = [work EXCEPT ![p] = "detecting"]
          /\ EnrichDetect(p, channels[p])
          /\ UNCHANGED stats
  /\ UNCHANGED <<channels, files, htmlVars, fnVars>>

\* A rejection that the catch does not take up (a variant of EnrichOutcome).
EnrichOutcomeUncaught(p) == IF det[p] = "threw" THEN "rejected" ELSE "enriched"

\* try { ... stats.enriched++ } catch (error) { ... stats.errors++ }
EnrichOutcome(p) == IF det[p] = "threw" THEN "error" ELSE "enriched"

\* enrichChannel after await detectLanguage(channel, cache): the language goes
\* into the record and into the file of the channel when that exists and can
\* be read and written, and the channel is counted; a rejection is counted as
\* an error. (Durations and log output are left out.)
EnrichResume(p) ==
  LET \* stats.sources[key] = (stats.sources[key] || 0) + 1
      Tally(counts, key) ==
        [k \in (DOMAIN counts) \cup {key} |->
           IF k = key THEN (IF key \in DOMAIN counts THEN counts[key] ELSE 0) + 1
                      ELSE counts[k]]
  IN /\ run.st # "mapping"
     /\ p \in DOMAIN work
     /\ work[p] = "detecting"
     /\ det[p] \in {"returned", "threw"}
     /\ IF det[p] = "threw"
        THEN /\ stats' = [stats EXCEPT !.errors = @ + 1]
             /\ work' = [work EXCEPT ![p] = EnrichOutcome(p)]
             /\ UNCHANGED <<channels, files>>
        ELSE /\ channels' = [channels EXCEPT ![p].language = result[p].language]
             /\ \E ok \in BOOLEAN :
                  files' = IF files[p] # NoFile /\ ok
                           THEN [files EXCEPT ![p] = result[p].language] ELSE files
             /\ stats' = [stats EXCEPT !.enriched = @ + 1,
                                       !.sources = Tally(@, result[p].source),
                                       !.languages = Tally(@, result[p].language)]
             /\ work' = [work EXCEPT ![p] = EnrichOutcome(p)]
     \* the detectLanguage call of the worker is over
     /\ det' = [det EXCEPT ![p] = "idle"]
     /\ chan' = [chan EXCEPT ![p] = NoChannel]
     /\ atCall' = [atCall EXCEPT ![p] = NoAtCall]
     /\ result' = [result EXCEPT ![p] = NoResult]
     /\ fetch' = [fetch EXCEPT ![p] = NoFetch]
     /\ log' = [log EXCEPT ![p] = <<>>]
     /\ UNCHANGED <<cacheVars, calls, htmlVars, fnVars, run>>

\* One channel of lo..hi settled (a variant of AllSettled).
AnySettled(lo, hi) == \E q \in lo..hi : work[q] \in {"skipped", "enriched", "error"}

\* await Promise.all(...): every enrichChannel call of the batch has settled.
AllSettled(lo, hi) == \A q \in lo..hi : work[q] \in {"skipped", "enriched", "error"}

\* processBatch after await Promise.all: the periodic flush, then the sleep
\* before the next batch or the end of the loop.
BatchSettled ==
  /\ run.st = "awaiting"
  /\ AllSettled(run.i + 1, BatchEnd(run.i))
  /\ IF (run.i + run.batchSize) % 100 = 0 THEN CacheFlush(BOOLEAN) ELSE UNCHANGED cacheVars
  /\ run' = IF run.i + run.batchSize < Len(channels)
            THEN [run EXCEPT !.st = "delay", !.ms = rateLimitDelay]
            ELSE [run EXCEPT !.st = "done", !.i = @ + run.batchSize]
  /\ UNCHANGED <<detVars, fetchVars, htmlVars, fnVars, channels, files, stats, work>>

\* sleep(CONFIG.rateLimitDelay) is over: i += batchSize and the next batch.
DelayOver ==
  /\ run.st = "delay"
  /\ run' = [run EXCEPT !.st = "mapping", !.i = @ + run.batchSize,
                        !.next = run.i + run.batchSize + 1, !.ms = 0]
  /\ UNCHANGED <<cacheVars, detVars, fetchVars, htmlVars, fnVars, channels, files, stats, work>>

\* A request or a sleep of worker p ends, or its detectLanguage call resumes:
\* never while batch.map is running.
WorkerStep(p, outcomes) ==
  /\ run.st # "mapping"
  /\ \/ \E o \in outcomes : AxiosSettles(p, o)
     \/ SleepOver(p)
     \/ DetectResume(p)

\* processBatch(channels, tvDir, cache, stats, batchSize) on an empty cache,
\* for every list of up to MaxChannels of the records.
InitRun(records) ==
  /\ InitCache(<<>>)
  /\ det = [p \in Workers |-> "idle"]
  /\ chan = [p \in Workers |-> NoChannel]
  /\ atCall = [p \in Workers |-> NoAtCall]
  /\ result = [p \in Workers |-> NoResult]
  /\ fetch = [p \in Workers |-> NoFetch]
  /\ log = [p \in Workers |-> <<>>]
  /\ calls = 0
  /\ html = NoDocument
  /\ htmlResult = NoHtmlResult
  /\ NotExtracting
  /\ \E list \in UNION {[1..n -> records] : n \in 1..MaxChannels},
        batchSize \in 1..MaxBatch :
       /\ channels = [i \in 1..Len(list) |->
                        [name |-> list[i].name, tvgId |-> list[i].tvgId,
                         language |-> list[i].language]]
       /\ files = [i \in 1..Len(list) |-> IF list[i].file THEN list[i].language ELSE NoFile]
       /\ work = [i \in 1..Len(list) |-> "pending"]
       /\ run = [st |-> "mapping", i |-> 0, batchSize |-> batchSize, next |-> 1, ms |-> 0]
  /\ stats = [enriched |-> 0, skipped |-> 0, errors |-> 0, sources |-> <<>>, languages |-> <<>>]

NextRun ==
  \/ \E p \in Workers :
       \/ EnrichStart(p)
       \/ WorkerStep(p, RunOutcomes)
       \/ EnrichResume(p)
  \/ BatchSettled
  \/ DelayOver

SpecRun == InitRun(RunChannels) /\ [][NextRun]_vars

\* The event loop keeps running: batch.map goes through its batch, requests
\* settle (axios is given a timeout), timers fire, and a caller whose awaited
\* promise has settled resumes. Each step is given by what it does to run,
\* fetch, det and work.
FairnessRun ==
  LET Mapped ==
        /\ run.st = "mapping"
        /\ run' = [run EXCEPT !.next = @ + 1,
                              !.st = IF run.next = BatchEnd(run.i) THEN "awaiting"
                                                                   ELSE "mapping"]
      Awaited ==
        /\ run.st = "awaiting"
        /\ AllSettled(run.i + 1, BatchEnd(run.i))
        /\ run' = IF run.i + run.batchSize < Len(channels)
                  THEN [run EXCEPT !.st = "delay", !.ms = rateLimitDelay]
                  ELSE [run EXCEPT !.st = "done", !.i = @ + run.batchSize]
      Slept ==
        /\ run.st = "delay"
        /\ run' = [run EXCEPT !.st = "mapping", !.i = @ + run.batchSize,
                              !.next = run.i + run.batchSize + 1, !.ms = 0]
      Requested ==
        \E p \in Workers :
          /\ run.st # "mapping"
          /\ \/ /\ fetch[p].st = "inflight"
                /\ \E o \in RunOutcomes :
                     fetch' = [fetch EXCEPT ![p] = FetchSettled(fetch[p], o)]
             \/ /\ fetch[p].st = "sleeping"
                /\ fetch' = [fetch EXCEPT ![p] =
                               LoopFrom([fetch[p] EXCEPT !.ms = 0], fetch[p].u,
                                        fetch[p].attempt + 1)]
      Resumed == \E p \in Workers : run.st # "mapping" /\ ResumeStep(p)
      Continued ==
        \E p \in DOMAIN work :
          /\ run.st # "mapping"
          /\ work[p] = "detecting"
          /\ det[p] \in {"returned", "threw"}
          /\ work' = [work EXCEPT ![p] = EnrichOutcome(p)]
  IN /\ WF_run(Mapped \/ Awaited \/ Slept)
     /\ WF_fetch(Requested)
     /\ WF_det(Resumed)
     /\ WF_work(Continued)

FairSpecRun == SpecRun /\ FairnessRun

\* SpecOrder: runs over channels of one domain that need a language, one with
\* a language word in its name and one without, on a website no request
\* gets an answer from.
OrderChannels ==
  { [name |-> <<88, 89, 90, 32, 84, 97, 109, 105, 108, 32, 78, 101, 119, 115>>,
     tvgId |-> <<83, 117, 110, 84, 86, 46, 105, 110, 64, 72, 68>>,     \* "XYZ Tamil News"
     language |-> sUnknown, file |-> TRUE],
    [name |-> <<81, 55>>,                                              \* "Q7"
     tvgId |-> <<83, 117, 110, 84, 86, 46, 105, 110, 64, 72, 68>>,     \* "SunTV.in@HD"
     language |-> Undefined, file |-> TRUE] }

SpecOrder ==
  InitRun(OrderChannels)
  /\ [][\/ \E p \in Workers :
            \/ EnrichStart(p)
            \/ WorkerStep(p, {o \in RunOutcomes : o.kind = "error"})
            \/ EnrichResume(p)
         \/ BatchSettled
         \/ DelayOver]_vars
\* ------------------------------------------------------------------------
\* Further specifications of single functions
\* ------------------------------------------------------------------------

\* SpecScript: the analyzers applied to documents without metadata whose
\* visible text is n letters of one script before or after m characters of
\* another kind, around the thresholds of the script detection (more than 50
\* letters, a share above 5%, the cap of the confidence at a share of 9.5%,
\* the sample of 5000 characters).
ScriptDocs ==
  LET ScriptLetters == {2949, 2309}          \* a Tamil letter, a Devanagari letter
      LetterCounts == {50, 51, 60}
      OtherFills == {49, 97, 2453}           \* '1', 'a', a Bengali letter
      OtherCounts == {0, 40, 485, 486, 968, 969}
      Texts ==
        {Repeat(c, n) \o Repeat(d, m) :
           c \in ScriptLetters, n \in LetterCounts, d \in OtherFills, m \in OtherCounts}
        \cup {Repeat(d, 40) \o Repeat(c, n) :
                c \in ScriptLetters, n \in LetterCounts, d \in OtherFills}
        \cup {Repeat(49, 4960) \o Repeat(c, n) : c \in ScriptLetters, n \in LetterCounts}
  IN {HtmlDoc(Undefined, Undefined, Undefined, Undefined, Undefined, <<>>,
              [bodyText |-> t, franc |-> f]) : t \in Texts, f \in {"und", "tam"}}

SpecScript == InitDocs(ScriptDocs) /\ [][NextHTML]_vars

\* SpecAgg: aggregateLanguageSignals(signals) applied to a list of up to
\* MaxSignals signals: ISO codes, a locale, language names, a name that
\* normalizes to nothing, a property name of Object.prototype and values that
\* are no strings or empty, each with a weight.
MaxSignals == 3

SignalLists ==
  LET Values == { <<116, 97>>,                                   \* "ta"
                  <<72, 105, 110, 100, 105>>,                    \* "Hindi"
                  <<104, 105, 95, 73, 78>>,                      \* "hi_IN"
                  <<32, 84, 65, 32>>,                            \* " TA "
                  <<107, 108, 105, 110, 103, 111, 110>>,         \* "klingon"
                  <<99, 111, 110, 115, 116, 114, 117, 99, 116, 111, 114>>,   \* "constructor"
                  Undefined, <<>> }
      Signals == [source : {"meta-language"}, value : Values, weight : {5, 10}]
  IN UNION {[1..n -> Signals] : n \in 0..MaxSignals}

AggregateCall ==
  /\ codeOut.st = "none"
  /\ codeOut' = [st |-> "returned", value |-> aggregateLanguageSignals(signalsIn)]
  /\ UNCHANGED <<cacheVars, detVars, fetchVars, htmlVars, tvgIdIn, domainOut, signalsIn,
                 cacheCall, runVars>>

InitAgg ==
  /\ InitCache(<<>>)
  /\ InitCallers
  /\ html = NoDocument
  /\ htmlResult = NoHtmlResult
  /\ tvgIdIn = Undefined
  /\ domainOut = [st |-> "none", value |-> Null]
  /\ signalsIn \in SignalLists
  /\ codeOut = [st |-> "none", value |-> Null]
  /\ cacheCall = [op |-> "none"]
  /\ NotRunning

SpecAgg == InitAgg /\ [][AggregateCall]_vars


\* ------------------------------------------------------------------------
\* LanguageCache on its own
\* ------------------------------------------------------------------------

\* cache.set(domain, language, source) as detectLanguage calls it during a run,
\* every write of the file succeeding.
SetCall(domain, language, source) ==
  /\ cacheCall.op # "finalFlush"
  /\ CacheSet(domain, language, source, {TRUE})
  /\ cacheCall' = [op |-> "set", domain |-> domain, language |-> language, source |-> source]
  /\ UNCHANGED <<detVars, fetchVars, htmlVars, tvgIdIn, domainOut, signalsIn, codeOut, runVars>>

\* cache.flush(): the periodic one of processBatch, or the final one of main,
\* after which the run makes no call.
FlushCall(final) ==
  /\ cacheCall.op # "finalFlush"
  /\ CacheFlush({TRUE})
  /\ cacheCall' = [op |-> IF final THEN "finalFlush" ELSE "flush"]
  /\ UNCHANGED <<detVars, fetchVars, htmlVars, tvgIdIn, domainOut, signalsIn, codeOut, runVars>>

\* new LanguageCache(cacheFile) on an absent file or on one a previous run left.
InitCacheRun ==
  /\ \E loaded \in InitialCaches : InitCache(loaded)
  /\ InitCallers
  /\ html = NoDocument
  /\ htmlResult = NoHtmlResult
  /\ NotExtracting
  /\ NotRunning

\* SpecCache: the LanguageCache calls of one run, in any order, ended by the
\* final flush.
SpecCache ==
  InitCacheRun
    /\ [][\/ \E domain \in { <<83, 117, 110, 84, 86, 46, 105, 110>>,      \* "SunTV.in"
                             <<82, 97, 106, 84, 86, 46, 105, 110>> },     \* "RajTV.in"
                language \in {sTamil, sHindi} :
                  SetCall(domain, language, "web")
          \/ FlushCall(FALSE)
          \/ FlushCall(TRUE)]_vars

\* ------------------------------------------------------------------------
\* Properties of detectLanguage (Spec, FairSpec)
\* ------------------------------------------------------------------------

\* The explicit language word in the name of the channel of a call in progress.
ExplicitLang(p) ==
  IF det[p] = "idle" THEN Null ELSE detectExplicitLanguageInName(chan[p].name)

DetectSafe ==
  \A p \in Procs :
    /\ det[p] # "threw"
    /\ det[p] = "returned" =>
         /\ IsString(result[p].language)
         /\ result[p].language # Null
         /\ result[p].source \in {"name-explicit", "web", "pattern", "cached-web",
                                  "cached-pattern", "cached-name-explicit"}

\* C1: whatever the tvgId is and however the requests and the HTML analysis
\* turn out, a detectLanguage call never throws to its caller, a call that
\* awaits the web site does return, and what a call returns is a pair of a
\* non-null string language and a source.
C1_DetectLanguageAlwaysReturns ==
  /\ []DetectSafe
  /\ \A p \in Procs : (det[p] = "awaitFetch") ~> (det[p] = "returned")

\* A call returned the pattern fallback after fetchWebsite threw.
C1_Witness ==
  \E p \in Procs :
    /\ det[p] = "returned"
    /\ fetch[p].st = "threw"
    /\ result[p].source = "pattern"
    /\ IsString(result[p].language)

\* C2: a call for a channel whose name holds an explicit language word has
\* returned that language with source 'name-explicit' without consulting the
\* cache entry and without any request, whatever the cache held.
C2_ExplicitNameFirst ==
  \A p \in Procs :
    (det[p] # "idle" /\ Truthy(ExplicitLang(p))) =>
      /\ det[p] = "returned"
      /\ result[p].source = "name-explicit"
      /\ result[p].language = ExplicitLang(p)
      /\ log[p] = <<>>
      /\ fetch[p].st = "none"

\* "XYZ Tamil News" resolved to 'tamil' although the cache held Hindi for its domain.
C2_Witness ==
  \E p \in Procs :
    /\ det[p] = "returned"
    /\ result[p].source = "name-explicit"
    /\ result[p].language = sTamil
    /\ atCall[p].hit
    /\ atCall[p].entry.language # sTamil

\* 'cached-<stored source>', written out.
PrefixedSource(source) ==
  CASE source = "web" -> "cached-web"
    [] source = "pattern" -> "cached-pattern"
    [] source = "name-explicit" -> "cached-name-explicit"

\* C3 as stated: a call for a channel whose domain has a cache entry makes no
\* request and returns the cached language with source 'cached-<stored source>'.
C3_AsStated ==
  \A p \in Procs :
    (det[p] # "idle" /\ atCall[p].hit) =>
      /\ log[p] = <<>>
      /\ det[p] = "returned"
      /\ result[p].language = atCall[p].entry.language
      /\ result[p].source = PrefixedSource(atCall[p].entry.source)

\* C3: a call for a channel whose domain has a cache entry makes no request;
\* when the channel name holds no explicit language word it returns the cached
\* language with source 'cached-<stored source>', and otherwise the language
\* of the name with source 'name-explicit'.
C3_CacheHitNoFetch ==
  \A p \in Procs :
    (det[p] # "idle" /\ atCall[p].hit) =>
      /\ log[p] = <<>>
      /\ fetch[p].st = "none"
      /\ det[p] = "returned"
      /\ IF Truthy(ExplicitLang(p))
         THEN result[p].source = "name-explicit"
         ELSE /\ result[p].language = atCall[p].entry.language
              /\ result[p].source = PrefixedSource(atCall[p].entry.source)

\* "Sun TV" resolved from the cache entry of its domain.
C3_Witness ==
  \E p \in Procs :
    /\ det[p] = "returned"
    /\ atCall[p].hit
    /\ ~Truthy(ExplicitLang(p))
    /\ result[p].source = "cached-web"
    /\ result[p].language = atCall[p].entry.language

\* C6 as stated: the language a call returns is the ISO 639-1 code of a
\* supported language, or 'unknown', on every strategy path.
C6_AlwaysIsoCode ==
  \A p \in Procs :
    det[p] = "returned" => result[p].language \in SupportedCodes \cup {sUnknown}

\* ------------------------------------------------------------------------
\* Properties of detectLanguageFromHTML (SpecHTML)
\* ------------------------------------------------------------------------

\* C4: in default mode, when the metadata language is 'en', the body language
\* is non-null and not 'en' and the body confidence is at least 0.5, the
\* function returns the body language, whatever the other signals are.
C4_ConflictOverride ==
  (/\ htmlResult.mode = "full"
   /\ htmlResult.metadataLang = sEn
   /\ Truthy(htmlResult.bodyResult.language)
   /\ htmlResult.bodyResult.language # sEn
   /\ ConfGE(htmlResult.bodyResult.confidence, <<1, 2>>))
    => htmlResult.language = htmlResult.bodyResult.language

\* English metadata from several signals, a Tamil body of confidence in [0.5, 0.7).
C4_Witness ==
  /\ htmlResult.mode = "full"
  /\ htmlResult.metadataLang = sEn
  /\ Len(htmlResult.signals) >= 2
  /\ htmlResult.bodyResult.language = sTamil
  /\ ConfGE(htmlResult.bodyResult.confidence, <<1, 2>>)
  /\ ~ConfGE(htmlResult.bodyResult.confidence, <<7, 10>>)
  /\ htmlResult.language = sTamil

\* C5: in default mode, a body result of confidence at least 0.7 is the final
\* result, whatever the metadata signals are.
C5_HighConfidenceBody ==
  (/\ htmlResult.mode = "full"
   /\ Truthy(htmlResult.bodyResult.language)
   /\ ConfGE(htmlResult.bodyResult.confidence, <<7, 10>>))
    => htmlResult.language = htmlResult.bodyResult.language

\* Hindi metadata from four signals, a body of confidence exactly 0.7.
C5_Witness ==
  /\ htmlResult.mode = "full"
  /\ htmlResult.metadataLang = <<104, 105>>
  /\ Len(htmlResult.signals) >= 4
  /\ Truthy(htmlResult.bodyResult.language)
  /\ htmlResult.bodyResult.confidence = <<7, 10>>
  /\ htmlResult.language = htmlResult.bodyResult.language

\* C7 as stated: the function returns null or a two-letter code on every
\* return path, never a full language name.
C7_NullOrIsoCode ==
  htmlResult.mode # "none" =>
    \/ htmlResult.language = Null
    \/ /\ IsString(htmlResult.language)
       /\ Len(htmlResult.language) = 2
       /\ \A k \in 1..2 : IsLower(htmlResult.language[k])

\* The body language as a code, and the totals the aggregation compares, in
\* halves: 15 for the body text and half the weight of each metadata signal.
BodyCode == normalizeLanguageCode(htmlResult.bodyResult.language)
BodyTotal == 2 * 15 + ScoreOf(htmlResult.signals, BodyCode)
MetadataTotal == ScoreOf(htmlResult.signals, htmlResult.metadataLang)

\* The body analysis and the metadata name two different languages.
Conflict ==
  /\ htmlResult.mode = "full"
  /\ Truthy(htmlResult.bodyResult.language)
  /\ Truthy(htmlResult.metadataLang)
  /\ BodyCode # htmlResult.metadataLang

\* C8 as stated: in default mode, whenever body and metadata name different
\* languages, the function returns the body language (as the analysis names
\* it, or as its code).
C8_AsStated ==
  Conflict => htmlResult.language \in {htmlResult.bodyResult.language, BodyCode}

\* The place of the first metadata signal for a code (past the end if none):
\* the body signal comes after every metadata signal.
FirstSignal(code) ==
  LET at == {k \in 1..Len(htmlResult.signals) :
               normalizeLanguageCode(htmlResult.signals[k].value) = code}
  IN IF at = {} THEN Len(htmlResult.signals) + 1 ELSE MinOf(at)

\* C8: in default mode, when body and metadata name different languages, the
\* function returns the body language if the body confidence is at least 0.7,
\* or if the metadata language is 'en' and the body confidence at least 0.5;
\* otherwise it returns the code of the body language when 15 plus half the
\* metadata weight for that language exceeds half the metadata weight for the
\* metadata language, the metadata language when it falls short of it, and on
\* a tie the one of the two whose first signal comes first.
C8_BodyAgainstMetadata ==
  Conflict =>
    IF \/ ConfGE(htmlResult.bodyResult.confidence, <<7, 10>>)
       \/ htmlResult.metadataLang = sEn /\ ConfGE(htmlResult.bodyResult.confidence, <<1, 2>>)
    THEN htmlResult.language = htmlResult.bodyResult.language
    ELSE /\ BodyTotal > MetadataTotal => htmlResult.language = BodyCode
         /\ BodyTotal < MetadataTotal => htmlResult.language = htmlResult.metadataLang
         /\ BodyTotal = MetadataTotal =>
              htmlResult.language =
                IF FirstSignal(BodyCode) < FirstSignal(htmlResult.metadataLang)
                THEN BodyCode ELSE htmlResult.metadataLang

\* Four Hindi metadata signals outweigh a Tamil body of confidence 0.4.
C8_Witness ==
  /\ Conflict
  /\ htmlResult.bodyResult.language = sTamil
  /\ ~ConfGE(htmlResult.bodyResult.confidence, <<1, 2>>)
  /\ BodyTotal < MetadataTotal
  /\ htmlResult.language = htmlResult.metadataLang

\* ------------------------------------------------------------------------
\* Properties of fetchWebsite (SpecFetch, FairSpecFetch)
\* ------------------------------------------------------------------------

\* The requests of a call, in the order they were made.
Gets(p) == log[p]

\* The three candidate URLs, written out.
CandidateUrl(domain, u) ==
  CASE u = 1 -> <<104, 116, 116, 112, 115, 58, 47, 47, 119, 119, 119, 46>> \o domain
    [] u = 2 -> <<104, 116, 116, 112, 115, 58, 47, 47>> \o domain
    [] u = 3 -> <<104, 116, 116, 112, 58, 47, 47, 119, 119, 119, 46>> \o domain

\* The k-th request of a call is attempt (k-1) mod (retries+1) on candidate
\* (k-1) div (retries+1) + 1.
InPriorityOrder(p) ==
  \A k \in 1..Len(Gets(p)) :
    /\ (k - 1) \div (fetch[p].retries + 1) + 1 <= 3
    /\ Gets(p)[k].url = CandidateUrl(fetch[p].domain, (k - 1) \div (fetch[p].retries + 1) + 1)
    /\ Gets(p)[k].attempt = (k - 1) % (fetch[p].retries + 1)

FetchSafe ==
  \A p \in Procs :
    \* serially: one request at most is awaiting its outcome
    /\ Len(Gets(p)) - fetch[p].settled = (IF fetch[p].st = "inflight" THEN 1 ELSE 0)
    /\ Len(Gets(p)) <= 3 * (fetch[p].retries + 1)
    \* an answer of status 400 or more is no result
    /\ fetch[p].st = "returned" =>
         fetch[p].last.kind = "response" /\ fetch[p].last.status < 400
    \* the call throws after all its requests only, and the error names the domain
    /\ fetch[p].st = "threw" =>
         /\ Len(Gets(p)) = 3 * (fetch[p].retries + 1)
         /\ InPriorityOrder(p)
         /\ fetch[p].settled = 3 * (fetch[p].retries + 1)
         /\ Len(fetch[p].error) > Len(fetch[p].domain)
         /\ SubSeq(fetch[p].error, Len(fetch[p].error) - Len(fetch[p].domain) + 1,
                   Len(fetch[p].error)) = fetch[p].domain

\* C9: fetchWebsite(domain, retries) throws only after retries+1 attempts on
\* each of its 3 URLs, every one settled before the next is made; it makes at
\* most 3 x (retries+1) requests, an answer of status >= 400 is never its
\* result, its error carries the domain, and every call returns or throws.
C9_FetchFailsOnlyWhenExhausted ==
  /\ []FetchSafe
  /\ \A p \in Procs :
       (fetch[p].st \in {"inflight", "sleeping"}) ~> (fetch[p].st \in {"returned", "threw"})

\* A call with the largest retries threw after a last answer of status 404.
C9_Witness ==
  \E p \in Procs :
    /\ fetch[p].st = "threw"
    /\ fetch[p].retries = MaxRetries
    /\ Len(Gets(p)) = 3 * (MaxRetries + 1)
    /\ fetch[p].last.status = 404

\* C10: the requests of a call follow the priority order https://www.<domain>,
\* https://<domain>, http://www.<domain>, a URL being requested only after the
\* retries+1 attempts on each earlier one; the call returns the first non-empty
\* response below status 400 with the URL of that request, which is its last.
C10_PriorityOrder ==
  \A p \in Procs :
    /\ InPriorityOrder(p)
    /\ fetch[p].st = "returned" =>
         /\ fetch[p].html = fetch[p].last.data
         /\ fetch[p].html.type # "empty"
         /\ fetch[p].settled = Len(Gets(p))
         /\ fetch[p].url = Gets(p)[Len(Gets(p))].url

\* A call returned the answer of http://www.<domain> after the attempts on the
\* two https URLs.
C10_Witness ==
  \E p \in Procs :
    /\ fetch[p].st = "returned"
    /\ fetch[p].retries >= 1
    /\ fetch[p].url = CandidateUrl(fetch[p].domain, 3)
    /\ Len(Gets(p)) > 2 * (fetch[p].retries + 1)

\* ------------------------------------------------------------------------
\* The pattern fallback
\* ------------------------------------------------------------------------

\* A call in progress found no domain and no explicit language word.
PatternOnly(p) ==
  /\ det[p] # "idle"
  /\ ~Truthy(DomainOf[chan[p].tvgId])
  /\ ~Truthy(ExplicitLangOf[chan[p].name])

\* C11: detectLanguageByPattern returns a non-null string for every channel
\* name, and a detectLanguage call for a channel without an explicit language
\* word and without a domain returns exactly that value with source 'pattern',
\* never throws, issues no request, consults no cache entry and leaves the
\* cache and its file as they were loaded.
C11_PatternFallbackTotal ==
  /\ \A name \in PatternNames :
       /\ IsString(PatternLangOf[name])
       /\ Len(PatternLangOf[name]) > 0
  /\ \A p \in Procs :
       PatternOnly(p) =>
         /\ det[p] = "returned"
         /\ result[p] = [language |-> PatternLangOf[chan[p].name],
                         source |-> "pattern"]
         /\ fetch[p].st = "none"
         /\ log[p] = <<>>
         /\ atCall[p] = NoAtCall
         /\ cache = cacheFile
         /\ pendingWrites = 0
         /\ dirty = FALSE

\* "Sun TV" without a domain came back as 'tamil' from the pattern matcher.
C11_Witness ==
  \E p \in Procs :
    /\ PatternOnly(p)
    /\ chan[p].name = <<83, 117, 110, 32, 84, 86>>
    /\ result[p] = [language |-> sTamil, source |-> "pattern"]

\* ------------------------------------------------------------------------
\* extractDomain
\* ------------------------------------------------------------------------

\* C12: extractDomain returns null for every string without an '@', for every
\* value that is no string and for the empty string, and never throws.
C12_NoAtYieldsNull ==
  domainOut.st # "none" =>
    /\ domainOut.st = "returned"
    /\ (~IsString(tvgIdIn) \/ tvgIdIn = <<>> \/ IndexOfChar(tvgIdIn, 64) = 0)
         => domainOut.value = Null

\* ------------------------------------------------------------------------
\* The analyzers
\* ------------------------------------------------------------------------

\* The confidence tier of a metadata result is none of the numbers.
IsTier(confidence) == confidence \in {"high", "low"}

\* C13 as stated: every result of an analyzer, the metadata result included,
\* that has language null has confidence 0.
C13_AsStated ==
  htmlResult.mode # "none" =>
    /\ htmlResult.textResult.language = Null => htmlResult.textResult.confidence[1] = 0
    /\ htmlResult.bodyResult.language = Null => htmlResult.bodyResult.confidence[1] = 0
    /\ htmlResult.metadataLang = Null => ~IsTier(htmlResult.metadataConfidence)

\* C13: a result of analyzeTextLanguage or of detectLanguageFromBodyText that
\* has language null has confidence 0; the result of detectLanguageFromMetadata
\* carries the tier 'high' or 'low' and no number, 'high' exactly when an html
\* lang, content-language, og:locale or meta language signal is present,
\* whether or not its language is null.
C13_NullMeansZero ==
  htmlResult.mode # "none" =>
    /\ htmlResult.textResult.language = Null => htmlResult.textResult.confidence[1] = 0
    /\ htmlResult.bodyResult.language = Null => htmlResult.bodyResult.confidence[1] = 0
    /\ IsTier(htmlResult.metadataConfidence)
    /\ htmlResult.metadataConfidence = "high" <=>
         \E k \in 1..Len(htmlResult.signals) :
           htmlResult.signals[k].source \in
             {"html-lang", "meta-content-language", "og-locale", "meta-language"}

\* <html lang="klingon"> over a text nothing is found in: every language null,
\* the metadata tier 'high'.
C13_Witness ==
  /\ htmlResult.mode # "none"
  /\ htmlResult.metadataLang = Null
  /\ htmlResult.metadataConfidence = "high"
  /\ htmlResult.bodyResult.language = Null
  /\ htmlResult.bodyResult.method = "undetermined"
  /\ htmlResult.textResult.language = Null

\* The first row of languageMentions whose '<name> <keyword>' pattern the
\* visible text contains, 0 when there is none.
MentionedRow ==
  LET rows == UNION { {k \in 1..Len(languageMentions) :
                         MentionMatches(text, languageMentions[k])} :
                      text \in {toLowerCase(html.bodyText)} }
  IN IF rows = {} THEN 0 ELSE MinOf(rows)

\* C19: a visible text with a '<language name> <keyword>' mention makes
\* detectLanguageFromBodyText return that language with confidence 0.85 and
\* method 'body-language-mention', whatever its length and its script.
C19_BodyMentionFirst ==
  (htmlResult.mode # "none" /\ MentionedRow # 0) =>
    htmlResult.bodyResult =
      [language |-> languageMentions[MentionedRow].language,
       confidence |-> <<85, 100>>,
       method |-> "body-language-mention"]

\* "HINDI \t News. " before 100 Tamil letters: the script analysis alone says
\* Tamil, the mention wins.
C19_Witness ==
  /\ htmlResult.mode # "none"
  /\ htmlResult.bodyResult.method = "body-language-mention"
  /\ htmlResult.bodyResult.language = sHindi
  /\ htmlResult.textResult.method = "script-detection"
  /\ htmlResult.textResult.language = sTamil

\* The length of a text once its runs of white space are collapsed to one
\* character and those at its ends are dropped.
CollapsedLength(text) ==
  LET solid == {i \in 1..Len(text) : ~IsWhiteSpace(text[i])}
      gaps == {i \in solid : i + 1 <= Len(text) /\ IsWhiteSpace(text[i + 1])
                                /\ \E j \in solid : j > i}
  IN Cardinality(solid) + Cardinality(gaps)

\* C20: analyzeTextLanguage returns {language: null, confidence: 0, method:
\* 'insufficient-text'} exactly for the texts of fewer than 50 characters
\* after white space is collapsed and trimmed.
C20_InsufficientText ==
  htmlResult.mode # "none" =>
    /\ CollapsedLength(html.bodyText) < 50 <=>
         htmlResult.textResult.method = "insufficient-text"
    /\ htmlResult.textResult.method = "insufficient-text" =>
         htmlResult.textResult =
           [language |-> Null, confidence |-> <<0, 1>>, method |-> "insufficient-text"]

\* 55 characters that collapse to 49: insufficient.
C20_Witness ==
  /\ htmlResult.mode # "none"
  /\ Len(html.bodyText) >= 50
  /\ CollapsedLength(html.bodyText) = 49
  /\ htmlResult.textResult.method = "insufficient-text"

\* ------------------------------------------------------------------------
\* detectLanguage and the cache
\* ------------------------------------------------------------------------

\* The step in which the call of p returns.
ReturnsNow(p) == det[p] # "returned" /\ det'[p] = "returned"

\* C14: when detectLanguage returns with source 'name-explicit', 'web' or
\* 'pattern' for a channel with a valid domain, the cache holds for the domain
\* the returned language and source; a call for a channel without a valid
\* domain, and a cache hit, leave the cache as it is.
C14_FreshDetectionCached ==
  [][\A p \in Procs :
       ReturnsNow(p) =>
         LET domain == extractDomain(chan'[p].tvgId)
             fresh == result'[p].source \in {"name-explicit", "web", "pattern"}
         IN /\ (fresh /\ Truthy(domain)) =>
                 /\ domain \in DOMAIN cache'
                 /\ cache'[domain] = result'[p]
                 /\ dirty' \/ cacheFile' = cache'
            /\ (~fresh \/ ~Truthy(domain)) => UNCHANGED cacheVars]_vars

\* 'XYZ Tamil News' on SunTV.in: the entry loaded from the cache file was
\* overwritten with the language found in the name.
C14_Witness ==
  \E p \in Procs :
    /\ det[p] = "returned"
    /\ result[p].source = "name-explicit"
    /\ Truthy(atCall[p].domain)
    /\ atCall[p].domain \in DOMAIN cacheFile
    /\ cacheFile[atCall[p].domain] # result[p]
    /\ cache[atCall[p].domain] = result[p]

\* ------------------------------------------------------------------------
\* The enrichment run
\* ------------------------------------------------------------------------

Settled(p) == work[p] \in {"skipped", "enriched", "error"}

\* The record of channel p holds a language other than 'unknown'.
HoldsLanguage(p) ==
  /\ IsString(channels[p].language)
  /\ channels[p].language # <<>>
  /\ channels[p].language # sUnknown

\* C15: a channel record that holds a language other than 'unknown' is left
\* as it is by the run: when enrichChannel takes it up, only stats.skipped
\* grows and the call is over; its language and its file are never changed,
\* no detection and no request is ever made for it, and taking it up writes
\* neither the cache nor any record or file.
C15_SkipUntouched ==
  [][\A p \in DOMAIN channels :
       HoldsLanguage(p) =>
         /\ channels'[p] = channels[p]
         /\ files'[p] = files[p]
         /\ det'[p] = "idle"
         /\ fetch'[p].st = "none"
         /\ log'[p] = <<>>
         /\ work'[p] # "detecting"
         /\ (work[p] = "pending" /\ work'[p] # "pending") =>
              /\ work'[p] = "skipped"
              /\ stats' = [stats EXCEPT !.skipped = @ + 1]
              /\ UNCHANGED <<cacheVars, detVars, fetchVars, channels, files>>]_vars

\* A channel with language 'ta' was skipped while another one was enriched.
C15_Witness ==
  \E p, q \in DOMAIN channels :
    /\ work[p] = "skipped"
    /\ channels[p].language = <<116, 97>>
    /\ files[p] = <<116, 97>>
    /\ stats.skipped >= 1
    /\ work[q] = "enriched"

\* The batch of channel p: channels (k * batchSize + 1)..((k + 1) * batchSize).
BatchOf(p) == (p - 1) \div run.batchSize

\* C16: at most batchSize (CONFIG.maxConcurrent by default) detections are in
\* flight; a channel has started only if every channel of every earlier batch
\* has settled; and the channels after the current batch have not started,
\* also while the delay between two batches runs.
C16_BoundedConcurrency ==
  run.st # "none" =>
    /\ Cardinality({p \in DOMAIN work : work[p] = "detecting"}) <= run.batchSize
    /\ Cardinality({p \in Workers : det[p] # "idle"}) <= run.batchSize
    /\ \A p, q \in DOMAIN work :
         (work[p] # "pending" /\ BatchOf(q) < BatchOf(p)) => Settled(q)
    /\ \A p \in DOMAIN work : work[p] # "pending" => p <= run.i + run.batchSize
    /\ run.st = "delay" => run.ms = rateLimitDelay /\ run.i + run.batchSize < Len(channels)

\* The third channel is being detected in the second batch of two, after the
\* first two were enriched.
C16_Witness ==
  /\ run.batchSize = 2
  /\ Len(channels) = 3
  /\ run.i = 2
  /\ work[1] = "enriched"
  /\ work[2] = "enriched"
  /\ work[3] = "detecting"

Count(outcome) == Cardinality({p \in DOMAIN work : work[p] = outcome})

\* C17: every channel is counted under exactly one of skipped, enriched and
\* errors; whatever happens to one channel, the run comes to its end, and at
\* its end every channel has settled and enriched + skipped + errors is the
\* number of channels.
C17_NoCrossCancellation ==
  /\ [](run.st # "none" =>
          /\ stats.skipped = Count("skipped")
          /\ stats.enriched = Count("enriched")
          /\ stats.errors = Count("error")
          /\ run.st = "done" =>
               /\ \A p \in DOMAIN work : Settled(p)
               /\ stats.enriched + stats.skipped + stats.errors = Len(channels))
  /\ <>(run.st = "done")

\* A run of three channels over: one threw, one was skipped and one enriched.
C17_Witness ==
  /\ run.st = "done"
  /\ Len(channels) = 3
  /\ stats.errors = 1
  /\ stats.skipped = 1
  /\ stats.enriched = 1
  /\ work[1] = "error"

\* C18 as stated: no two detections issue requests for the same domain.
C18_OneFetchPerDomain ==
  \A p, q \in Workers :
    (p # q /\ log[p] # <<>> /\ log[q] # <<>>) => fetch[p].domain # fetch[q].domain
\* ------------------------------------------------------------------------
\* Confidence of the script detection
\* ------------------------------------------------------------------------

\* The sample of a text and the share of its winning script in it, as the
\* rational <<count, length of the sample>>.
SampleOf(text) ==
  LET cleanText == CleanText(text)
  IN SubSeq(cleanText, 1, IF Len(cleanText) < 5000 THEN Len(cleanText) ELSE 5000)

WinningShare(text) ==
  <<MaxScript(ScriptCounts(SampleOf(text))).count, Len(SampleOf(text))>>

\* Results of analyzeTextLanguage to compare with: n Tamil letters followed by
\* m digits, each with the share of its winning script.
ScriptResults ==
  {[share |-> WinningShare(t), result |-> analyzeTextLanguage(t, "und")] :
     t \in {Repeat(2949, nm[1]) \o Repeat(49, nm[2]) :
              nm \in {<<51, 0>>, <<51, 485>>, <<51, 486>>, <<51, 700>>, <<51, 968>>,
                       <<60, 485>>, <<60, 600>>, <<60, 1100>>}}}

\* C21: a result of method 'script-detection' has the confidence
\* min(0.95, 10 * share) for share = winning count / sample length; among the
\* script-detection results a higher share never has a lower confidence; and
\* no result of analyzeTextLanguage has a confidence above 0.95.
C21_ScriptConfidence ==
  htmlResult.mode # "none" =>
    LET r == htmlResult.textResult
        share == WinningShare(html.bodyText)
    IN /\ ConfGE(<<95, 100>>, r.confidence)
       /\ r.method = "script-detection" =>
            /\ r.confidence[1] * 100 * share[2] =
                 r.confidence[2] * (IF share[1] * 1000 >= 95 * share[2]
                                    THEN 95 * share[2] ELSE share[1] * 1000)
            /\ \A o \in ScriptResults :
                 (o.result.method = "script-detection" /\ ConfGE(o.share, share))
                   => ConfGE(o.result.confidence, r.confidence)

\* 51 Tamil letters in a sample of 537 characters: script detection below the
\* cap, with confidence 510/537.
C21_Witness ==
  /\ htmlResult.mode # "none"
  /\ htmlResult.textResult.method = "script-detection"
  /\ WinningShare(html.bodyText) = <<51, 537>>
  /\ htmlResult.textResult.confidence = <<510, 537>>
  /\ ~ConfGE(htmlResult.textResult.confidence, <<95, 100>>)

\* ------------------------------------------------------------------------
\* Signal aggregation
\* ------------------------------------------------------------------------

\* An ISO 639-1 style code: two lower-case letters.
IsCode(v) == IsString(v) /\ Len(v) = 2 /\ IsLower(v[1]) /\ IsLower(v[2])

\* What the signals handed over normalize to, the codes among it, the total of
\* the weights behind one of these values and the place of its first signal.
NormalizedKeys ==
  {PropertyKey(normalizeLanguageCode(signalsIn[k].value)) : k \in 1..Len(signalsIn)} \ {Null}

NormalizedCodes == {c \in NormalizedKeys : IsCode(c)}

TotalOf(c) ==
  LET RECURSIVE Sum(_)
      Sum(k) == IF k = 0 THEN 0
                ELSE Sum(k - 1)
                     + (IF PropertyKey(normalizeLanguageCode(signalsIn[k].value)) = c
                        THEN signalsIn[k].weight ELSE 0)
  IN Sum(Len(signalsIn))

FirstSignalOf(c) ==
  MinOf({k \in 1..Len(signalsIn) :
           PropertyKey(normalizeLanguageCode(signalsIn[k].value)) = c})

\* C22: aggregateLanguageSignals returns null exactly when no signal
\* normalizes to a language code, and otherwise a language code whose total
\* weight is at least the total of every other code.
C22_AggregateResult ==
  codeOut.st = "returned" =>
    /\ codeOut.value = Null <=> NormalizedCodes = {}
    /\ NormalizedCodes # {} =>
         /\ codeOut.value \in NormalizedCodes
         /\ \A c \in NormalizedCodes : TotalOf(codeOut.value) >= TotalOf(c)

\* C23: among the values of the highest total, aggregateLanguageSignals
\* returns the one whose first signal comes first in the list.
C23_TieBreakFirstSeen ==
  (codeOut.st = "returned" /\ NormalizedKeys # {}) =>
    LET maxima == {c \in NormalizedKeys : \A d \in NormalizedKeys : TotalOf(d) <= TotalOf(c)}
    IN /\ codeOut.value \in maxima
       /\ \A c \in maxima : FirstSignalOf(codeOut.value) <= FirstSignalOf(c)

\* "Hindi" (5), "ta" (10), "hi_IN" (5): hi and ta both total 10, and hi, seen
\* first, is returned although the heaviest signal is the one for ta.
C23_Witness ==
  /\ codeOut.st = "returned"
  /\ Len(signalsIn) = 3
  /\ signalsIn[2].value = <<116, 97>> /\ signalsIn[2].weight = 10
  /\ TotalOf(<<104, 105>>) = 10
  /\ FirstSignalOf(<<104, 105>>) = 1
  /\ codeOut.value = <<104, 105>>

\* ------------------------------------------------------------------------
\* Order of the channels of a run
\* ------------------------------------------------------------------------

\* The language detectLanguage gives a channel on an empty cache when no
\* request gets an answer: what the channel gets when it is the first of its
\* run.
FirstOfRunLanguage(channel) ==
  IF Truthy(ExplicitLangOf[channel.name]) THEN ExplicitLangOf[channel.name]
  ELSE PatternLangOf[channel.name]

\* C24: with the same responses and an empty cache at the start, the language
\* a run gives a channel is the same in every order of the channels: at the
\* end of a run every enriched channel has the language it gets when its
\* record is the first of the list.
C24_OrderIndependent ==
  run.st = "done" =>
    \A i \in 1..Len(channels) :
      work[i] = "enriched" => channels[i].language = FirstOfRunLanguage(channels[i])

\* ------------------------------------------------------------------------
\* Weight of the body-text signal
\* ------------------------------------------------------------------------

\* The body-text signal of the combined signal list (weights in halves).
BodySignal ==
  LET combined == CombinedSignals([signals |-> htmlResult.signals], htmlResult.bodyResult)
  IN combined[Len(combined)]

\* C25: in full-HTML resolution a body result with a language is pushed as a
\* body-text signal of weight 8 when the language is English and 15 otherwise,
\* so that an English body of confidence below 0.7 loses the aggregation to
\* metadata signals of another language whose halved weights sum to more
\* than 8.
C25_BodyWeightByLanguage ==
  (htmlResult.mode = "full" /\ Truthy(htmlResult.bodyResult.language)) =>
    /\ BodySignal.source = "body-text"
    /\ BodySignal.weight =
         IF normalizeLanguageCode(htmlResult.bodyResult.language) = sEn THEN 2 * 8 ELSE 2 * 15
    /\ (/\ normalizeLanguageCode(htmlResult.bodyResult.language) = sEn
        /\ ~ConfGE(htmlResult.bodyResult.confidence, <<7, 10>>)
        /\ Truthy(htmlResult.metadataLang)
        /\ htmlResult.metadataLang # sEn
        /\ ScoreOf(htmlResult.signals, htmlResult.metadataLang) > 2 * 8)
         => htmlResult.language = htmlResult.metadataLang

\* ------------------------------------------------------------------------
\* Delay between the attempts of fetchWebsite
\* ------------------------------------------------------------------------

\* C26: a further attempt on the same URL comes only after a wait of 300 ms,
\* whatever ended the attempt before it (no step leads from one request in
\* flight straight to the next request for the same URL), the wait is 300 ms
\* at every attempt, and there is no wait after the last attempt on a URL.
C26_FixedRetryDelay ==
  [][\A p \in Procs :
       /\ (/\ fetch[p].st = "inflight"
           /\ fetch'[p].st = "inflight"
           /\ fetch'[p].u = fetch[p].u) => fetch'[p].attempt = fetch[p].attempt
       /\ fetch'[p].st = "sleeping" =>
            /\ fetch'[p].ms = 300
            /\ fetch'[p].attempt < fetch'[p].retries]_vars


\* The web strategy of caller p succeeded: fetchWebsite returned a page, the
\* analysis did not throw, and detectLanguageFromHTML(html) is neither null nor
\* 'unknown'.
WebSucceeded(p) ==
  /\ fetch[p].st = "returned"
  /\ ~HtmlAnalysisThrows(fetch[p].html)
  /\ DetectedLangOf[fetch[p].html] \notin {Null, sUnknown}

\* The step of caller p that ends a call which took the web strategy: the
\* channel has a valid domain, no explicit language word and no cache entry.
WebCallEnds(p) ==
  /\ det[p] = "awaitFetch"
  /\ det'[p] # "awaitFetch"
  /\ Truthy(atCall[p].domain)
  /\ ~atCall[p].hit
  /\ ~Truthy(ExplicitLangOf[chan[p].name])

\* C27: a call for a channel with a valid domain, no explicit language word in
\* its name and no cache entry never rejects; when the fetch is exhausted, the
\* analysis throws, or the resolution yields null or 'unknown', it returns
\* {language: detectLanguageByPattern(name), source: 'pattern'} and stores that
\* language under the domain with source 'pattern'; otherwise (and only then)
\* it returns the resolved language with source 'web' and stores it with
\* source 'web'.
C27_WebToPatternFallThrough ==
  [][\A p \in Procs :
       WebCallEnds(p) =>
         LET domain == atCall[p].domain
             language == IF WebSucceeded(p) THEN DetectedLangOf[fetch[p].html]
                         ELSE PatternLangOf[chan[p].name]
             source == IF WebSucceeded(p) THEN "web" ELSE "pattern"
         IN /\ det'[p] = "returned"
            /\ result'[p] = [language |-> language, source |-> source]
            /\ domain \in DOMAIN cache'
            /\ cache'[domain] = [language |-> language, source |-> source]]_vars

\* A call whose fetch was exhausted has returned the pattern language 'unknown',
\* cached under the domain; another whose page resolved has returned 'web'.
C27_Witness ==
  \E p \in Procs :
    /\ det[p] = "returned"
    /\ ~atCall[p].hit
    /\ Truthy(atCall[p].domain)
    /\ fetch[p].st = "threw"
    /\ result[p] = [language |-> sUnknown, source |-> "pattern"]
    /\ cache[atCall[p].domain] = result[p]

\* ------------------------------------------------------------------------
\* The domain grammar
\* ------------------------------------------------------------------------

\* The labels of d, as pairs of the positions of their first and last
\* character: what the dots of d separate.
LabelsOf(d) ==
  LET dots == {i \in 1..Len(d) : d[i] = 46}
      starts == {1} \cup {i + 1 : i \in dots}
      EndOf(a) == MinOf({i \in dots : i >= a} \cup {Len(d) + 1}) - 1
  IN {<<a, EndOf(a)>> : a \in starts}

\* d[l[1]..l[2]] is alphanumeric with optional internal hyphens.
IsHostLabel(d, l) ==
  /\ l[1] <= l[2]
  /\ IsLetter(d[l[1]]) \/ IsDigit(d[l[1]])
  /\ IsLetter(d[l[2]]) \/ IsDigit(d[l[2]])
  /\ \A i \in l[1]..l[2] : IsLetter(d[i]) \/ IsDigit(d[i]) \/ d[i] = 45

\* d[l[1]..l[2]] is two or more letters.
IsAlphaLabel(d, l) ==
  /\ l[2] >= l[1] + 1
  /\ \A i \in l[1]..l[2] : IsLetter(d[i])

\* The hostname grammar as stated: one or more dot-separated labels, each
\* alphanumeric with optional internal hyphens, the final one at least two
\* letters.
IsStatedHostname(d) ==
  /\ \A l \in LabelsOf(d) : IsHostLabel(d, l)
  /\ \A l \in LabelsOf(d) : l[2] = Len(d) => IsAlphaLabel(d, l)

\* The grammar of the validation pattern: a first label, alphanumeric with
\* optional internal hyphens, and after it one or more labels, each of two or
\* more letters.
IsFirstLabelAndAlphaGroups(d) ==
  /\ Cardinality(LabelsOf(d)) >= 2
  /\ \A l \in LabelsOf(d) :
       IF l[1] = 1 THEN IsHostLabel(d, l) ELSE IsAlphaLabel(d, l)

\* The candidate of a string tvgId: the text before its first '@', trimmed.
CandidateOf(tvgId) == trim(BeforeFirstAt(tvgId))

\* C28 as stated: for a string tvgId, extractDomain returns a non-null value
\* if and only if the candidate is a hostname of the stated grammar, and then
\* returns the candidate.
C28_AsStated ==
  (domainOut.st = "returned" /\ IsString(tvgIdIn)) =>
    /\ domainOut.value # Null <=> IsStatedHostname(CandidateOf(tvgIdIn))
    /\ domainOut.value # Null => domainOut.value = CandidateOf(tvgIdIn)

\* C28: for a string tvgId, extractDomain returns a non-null value if and only
\* if the trimmed text before the first '@' is a first label (alphanumeric with
\* optional internal hyphens) followed by one or more dot-separated labels of
\* two or more letters each, and the value is then that trimmed text, its case
\* preserved.
C28_DomainGrammar ==
  (domainOut.st = "returned" /\ IsString(tvgIdIn)) =>
    /\ domainOut.value # Null <=> IsFirstLabelAndAlphaGroups(CandidateOf(tvgIdIn))
    /\ domainOut.value # Null => domainOut.value = CandidateOf(tvgIdIn)

\* " 7SMusic.co.in @HD@x" has yielded "7SMusic.co.in", and "www.sun-tv.in@HD",
\* a hostname of the stated grammar, would yield null.
C28_Witness ==
  /\ domainOut.st = "returned"
  /\ domainOut.value = <<55, 83, 77, 117, 115, 105, 99, 46, 99, 111, 46, 105, 110>>
  /\ tvgIdIn = <<32>> \o domainOut.value \o <<32, 64, 72, 68, 64, 120>>
  /\ IsStatedHostname(<<119, 119, 119, 46, 115, 117, 110, 45, 116, 118, 46, 105, 110>>)
  /\ extractDomain(<<119, 119, 119, 46, 115, 117, 110, 45, 116, 118, 46, 105, 110, 64, 72, 68>>) = Null

\* ------------------------------------------------------------------------
\* The order of the pattern matcher
\* ------------------------------------------------------------------------

\* The rows of LANGUAGE_PATTERNS whose pattern matches the lower-cased name,
\* and whether the lower-cased name contains a generic broadcast term.
MatchingRowsOf ==
  [name \in PatternNames |->
     {i \in 1..Len(LANGUAGE_PATTERNS) :
        \E k \in 1..Len(LANGUAGE_PATTERNS[i].alts) :
          AltMatches(toLowerCase(name), LANGUAGE_PATTERNS[i].alts[k])}]
HasGenericTermOf ==
  [name \in PatternNames |->
     \E term \in { <<116, 118>>,                                 \* tv
                   <<99, 104, 97, 110, 110, 101, 108>>,          \* channel
                   <<110, 101, 119, 115>>,                       \* news
                   <<98, 104, 97, 114, 97, 116>>,                \* bharat
                   <<105, 110, 100, 105, 97>>,                   \* india
                   <<100, 101, 115, 105>> } :                    \* desi
       Contains(toLowerCase(name), term)]

\* C29: a call that reaches the pattern matcher returns the language of the
\* first row of LANGUAGE_PATTERNS, in the order of the table (tamil before
\* hindi), whose pattern matches the lower-cased name; 'hindi' if no row
\* matches and the name contains a generic broadcast term; 'unknown' otherwise.
C29_PatternOrder ==
  /\ \E i, j \in 1..Len(LANGUAGE_PATTERNS) :
       /\ i < j
       /\ LANGUAGE_PATTERNS[i].language = sTamil
       /\ LANGUAGE_PATTERNS[j].language = sHindi
  /\ \A p \in Procs :
       (PatternOnly(p) /\ det[p] = "returned") =>
         LET rows == MatchingRowsOf[chan[p].name]
             language == result[p].language
         IN /\ \A i \in rows :
                 (\A j \in rows : i <= j) => language = LANGUAGE_PATTERNS[i].language
            /\ (rows = {} /\ HasGenericTermOf[chan[p].name]) => language = sHindi
            /\ (rows = {} /\ ~HasGenericTermOf[chan[p].name]) => language = sUnknown

\* "Sony Vijay", which the tamil and the hindi pattern both match, came back as
\* 'tamil'.
C29_Witness ==
  \E p \in Procs :
    /\ PatternOnly(p)
    /\ det[p] = "returned"
    /\ chan[p].name = <<83, 111, 110, 121, 32, 86, 105, 106, 97, 121>>
    /\ Cardinality(MatchingRowsOf[chan[p].name]) = 2
    /\ result[p].language = sTamil

\* ------------------------------------------------------------------------
\* The persistence of the cache
\* ------------------------------------------------------------------------

\* What a step of SpecCache that is a set call does: the entry is in the map,
\* the other entries stay, and the file is written on the 20th pending write
\* at the latest.
SetStep ==
  cacheCall'.op = "set" =>
    /\ cacheCall'.domain \in DOMAIN cache'
    /\ cache'[cacheCall'.domain] =
         [language |-> cacheCall'.language, source |-> cacheCall'.source]
    /\ \A d \in DOMAIN cache :
         d # cacheCall'.domain => (d \in DOMAIN cache' /\ cache'[d] = cache[d])
    /\ IF pendingWrites = 19
       THEN pendingWrites' = 0 /\ ~dirty' /\ cacheFile' = cache'
       ELSE pendingWrites' = pendingWrites + 1 /\ dirty' /\ cacheFile' = cacheFile

\* What a step that is a flush does: the map stays and is on disk.
FlushStep ==
  cacheCall'.op \in {"flush", "finalFlush"} =>
    /\ cache' = cache
    /\ cacheFile' = cache
    /\ ~dirty'
    /\ pendingWrites' = 0

\* C30: from an absent or loaded cache file and without write errors, after any
\* sequence of set and flush calls the file equals the in-memory map whenever
\* the dirty flag is false; at most 19 writes are ever pending, the 20th saves;
\* and after the final flush the file holds the map, with every entry set
\* during the run, those set after the last periodic save included.
C30_CachePersistence ==
  /\ [](/\ ~dirty => (cacheFile = cache /\ pendingWrites = 0)
        /\ pendingWrites < 20
        /\ cacheCall.op = "finalFlush" => (~dirty /\ cacheFile = cache))
  /\ [][SetStep /\ FlushStep]_vars

\* The 20th pending write of a run has saved a map of two domains.
C30_Witness ==
  /\ cacheCall.op = "set"
  /\ pendingWrites = 0
  /\ ~dirty
  /\ Cardinality(DOMAIN cache) = 2
  /\ cacheFile = cache

=============================================================================
